---- MODULE Spec2Model ----
(***************************************************************************)
(* State-machine model of ers::json::JsonParser (src/json.h): the scanner  *)
(* (getNextToken and its match functions), the recursive-descent builder   *)
(* (Parse, parseArray, parseObject, expect, pushNode) and the bounded      *)
(* error log (appendToErrorLog, logInvalidTokenPosition).                  *)
(*                                                                         *)
(* The input is a sequence of one-character strings; offsets are 0-based   *)
(* as in the C++ code (m_begin is offset 0, m_end is offset Len(data)).    *)
(* The recursion of parseArray/parseObject is an explicit stack of frames. *)
(***************************************************************************)
EXTENDS Integers, Sequences, FiniteSets, TLC

VARIABLES
    data,            \* the bytes m_begin .. m_end-1
    past,            \* the bytes that follow m_end in memory (not part of the input)
    m_pos,           \* offset of m_pos from m_begin
    m_errorCode,
    m_nodeBuffer,    \* function 0..m_tokenCapacity-1 -> node (or Uninit)
    m_nodeCount,
    m_tokenCapacity,
    m_currentToken,
    m_currentLine,
    m_errorLogPos,   \* offset of m_errorLogPos from &m_errorLog[0]
    halt,            \* "none", "assert" (JSON_ASSERTF called exit) or "fault" (scan ran off memory)
    pc,              \* position inside Parse, "idle" between calls
    stack,           \* frames of the active parseArray/parseObject calls, innermost first
    result,          \* the bool a returning parseArray/parseObject hands to its caller
    calls,           \* history: Parse calls since the last reset (SetUp or new buffer), capped
    pushFailed,      \* history: a pushNode of the current Parse call has failed
    oobWrite,        \* history: a node write targeted a slot outside 0..m_nodeCount-1
    expectFail,      \* history: kind of token that failed expect() in the current call
    query,           \* the last call of a library function on the parsed data: name and arguments
    answer           \* what that call returned

vars == << data, past, m_pos, m_errorCode, m_nodeBuffer, m_nodeCount, m_tokenCapacity,
           m_currentToken, m_currentLine, m_errorLogPos, halt, pc, stack, result,
           calls, pushFailed, oobWrite, expectFail, query, answer >>

----------------------------------------------------------------------------
(* Bounds of the model.                                                    *)

MaxLen == 3          \* every input over InputChars up to this length is parsed
MaxCap == 5          \* node buffer capacities 0..MaxCap
MaxDocNodes == 4     \* well-formed documents with up to this many nodes (end-of-input excluded)
MaxTrail == 1        \* characters appended after a closed root
LongLen == 256       \* length of the long digit run

JSON_ERROR_MESSAGE_LENGTH == 255
JSON_INVALID_TOKEN_NEWLINES == 3

Nil == -1            \* nullptr, as a node index

----------------------------------------------------------------------------
(* Characters.                                                             *)

NUL == "NUL"         \* the byte 0
XFF == "xFF"         \* the byte 0xFF
QUOTE == "\""
BACKSLASH == "\\"

isDigit(ch) == ch \in {"0", "1", "2", "3", "4", "5", "6", "7", "8", "9"}

isHexDigit(ch) ==
    \/ isDigit(ch)
    \/ ch \in {"a", "b", "c", "d", "e", "f"}
    \/ ch \in {"A", "B", "C", "D", "E", "F"}

isWhitespace(ch) == ch \in {" ", "\t", "\n", "\r"}

isStructural(ch) == ch \in {"{", "[", "}", "]", ":", ","}

isValid(ch) ==
    isWhitespace(ch) \/ isStructural(ch) \/ isDigit(ch) \/ ch = "t" \/ ch = "f" \/ ch = "n"

\* (u8)ch < 0x20 for the characters of the model
isControl(ch) == ch \in {NUL, "\t", "\n", "\r"}

\* the byte at offset i: the input, then the bytes behind it, then zero bytes
Mem(i) ==
    IF i < Len(data) THEN data[i + 1]
    ELSE IF i < Len(data) + Len(past) THEN past[i - Len(data) + 1]
    ELSE NUL

End == Len(data)                  \* m_end - m_begin
MemEnd == Len(data) + Len(past)   \* first offset from which every byte is zero

----------------------------------------------------------------------------
(* Tokens and nodes.                                                       *)

JsonToken(type, start, length) == [type |-> type, data |-> start, length |-> length]

NoToken == JsonToken("UNSET", 0, 0)

Uninit == [type |-> "UNINIT", data |-> 0, length |-> 0, count |-> 0, next |-> Nil]

\* JsonNode::JsonNode(const JsonToken&): the node type mirrors the token type;
\* count shares storage with as_sv and is meaningful for containers only.
TokenNodeType(type) ==
    CASE type = "JSON_ARRAY_BEGIN" -> "JSON_ARRAY"
      [] type = "JSON_OBJECT_BEGIN" -> "JSON_OBJECT"
      [] type \in {"JSON_STRING", "JSON_KEY", "JSON_TRUE", "JSON_FALSE", "JSON_NULL",
                   "JSON_NUMBER", "JSON_FLOAT_HEX", "JSON_DOUBLE_HEX", "INVALID",
                   "SYNTACTIC_ERROR", "JSON_EOF"} -> type
      [] OTHER -> "UNREACHABLE"

JsonNode(tok) ==
    [type |-> TokenNodeType(tok.type), data |-> tok.data, length |-> tok.length,
     count |-> 0, next |-> Nil]

isPrimitiveValueToken(tok) ==
    tok.type \in {"JSON_TRUE", "JSON_FALSE", "JSON_NULL", "JSON_NUMBER", "JSON_STRING",
                  "JSON_FLOAT_HEX", "JSON_DOUBLE_HEX"}

----------------------------------------------------------------------------
(* The error log.  Only the write offset is modelled: the text itself is   *)
(* never read back by the parser.                                          *)

\* strlen of the message literals handed to expect() and logInvalidTokenError()
MessageLength(message) ==
    CASE message = "Array or object expected" -> 24
      [] message = "value or array end expected" -> 27
      [] message = "value expected" -> 14
      [] message = "comma or array end expected" -> 27
      [] message = "string (key) or object end expected" -> 35
      [] message = "string (key) expected" -> 21
      [] message = "colon expected" -> 14
      [] message = "comma or object end expected" -> 28
      [] message = "floating point number in hexadecimal expected" -> 45
      [] message = "number expected" -> 15
      [] message = "string expected" -> 15
      [] message = "true expected" -> 13
      [] message = "false expected" -> 14
      [] message = "null expected" -> 13

\* number of characters %u prints
RECURSIVE DecimalLength(_)
DecimalLength(n) == IF n < 10 THEN 1 ELSE 1 + DecimalLength(n \div 10)

\* "Syntactic error at line %u: %s\n"
SyntacticErrorLength(line, message) == 24 + DecimalLength(line) + 2 + MessageLength(message) + 1

\* "Invalid token at line %u: %s\n"
InvalidTokenLength(line, message) == 22 + DecimalLength(line) + 2 + MessageLength(message) + 1

\* "Invalid token at line %u\n"
InvalidCharLength(line) == 22 + DecimalLength(line) + 1

\* "Exceeded node buffer capacity\n"
CapacityMessageLength == 30

\* vsnprintf returns the length the text needs; the second JSON_ASSERTF exits the
\* process when it does not fit (assertions are on unless JSON_NDEBUG is defined).
appendToErrorLog(S, written_count) ==
    IF S.halt # "none" THEN S
    ELSE IF S.m_errorLogPos + written_count <= JSON_ERROR_MESSAGE_LENGTH
         THEN [S EXCEPT !.m_errorLogPos = @ + written_count]
         ELSE [S EXCEPT !.halt = "assert"]

logInvalidTokenError(S, actual_type, message) ==
    IF actual_type = "INVALID"
    THEN appendToErrorLog(S, InvalidTokenLength(S.m_currentLine, message))
    ELSE S

----------------------------------------------------------------------------
(* The scanner.  The match operators take the offset m_pos and return the  *)
(* offset they leave in m_pos together with their result.                  *)

\* least element of a non-empty set of offsets
Least(offsets) == CHOOSE q \in offsets : \A r \in offsets : q <= r

\* while (m_pos != m_end && isDigit(*m_pos)) ++m_pos: the first offset from p on
\* that is the end of the input or holds no digit
skipDigits(p) ==
    IF p = End \/ ~isDigit(Mem(p)) THEN p
    ELSE Least({q \in p..MemEnd : q = End \/ ~isDigit(Mem(q))})

\* the \u loop of matchString: up to four hex digits, fewer is not an error
RECURSIVE skipHex4(_, _)
skipHex4(p, count) ==
    IF count < 4 /\ ~(p = End \/ ~isHexDigit(Mem(p))) THEN skipHex4(p + 1, count + 1) ELSE p

SimpleEscapes == {BACKSLASH, "/", QUOTE, "0", "a", "b", "t", "v", "f", "r", "n"}

\* util::utf8_len on the bytes of the model that reach it (only 0xFF does)
utf8_len(ch) == IF ch = XFF THEN 0 ELSE 1

RECURSIVE matchStringLoop(_)
matchStringLoop(p) ==
    IF ~(p < End /\ Mem(p) # QUOTE) THEN p
    ELSE LET ch == Mem(p) IN
         IF isControl(ch) \/ ch = "/" \/ ch = QUOTE THEN p
         ELSE IF ch = BACKSLASH
              THEN LET esc == Mem(p + 1) IN
                   IF esc \in SimpleEscapes THEN matchStringLoop(p + 2)
                   ELSE IF esc = "u" THEN matchStringLoop(skipHex4(p + 2, 0))
                   ELSE p + 1
         ELSE IF ch # XFF THEN matchStringLoop(p + 1)
         ELSE IF utf8_len(ch) = 0 THEN p
         ELSE matchStringLoop(p + utf8_len(ch))

matchString(p0) ==
    LET p == matchStringLoop(p0 + 1)
        ok == (p # End /\ Mem(p) = QUOTE)
    IN  [pos |-> IF ok THEN p + 1 ELSE p, ok |-> ok]

\* do_digits of matchNumber
do_digits(p) ==
    IF p # End /\ isDigit(Mem(p)) THEN [pos |-> skipDigits(p + 1), ok |-> TRUE]
    ELSE [pos |-> p, ok |-> FALSE]

\* the fraction/exponent loop of matchNumber: a '.' part does not end the loop
RECURSIVE matchNumberTail(_)
matchNumberTail(p) ==
    IF ~(p < End) THEN [pos |-> p, ok |-> TRUE]
    ELSE IF Mem(p) = "."
         THEN LET d == do_digits(p + 1) IN
              IF d.ok THEN matchNumberTail(d.pos) ELSE d
    ELSE IF Mem(p) \in {"e", "E"}
         THEN LET q == IF p + 1 # End /\ Mem(p + 1) \in {"-", "+"} THEN p + 2 ELSE p + 1
              IN  do_digits(q)
    ELSE [pos |-> p, ok |-> TRUE]

matchNumber(p0) ==
    LET p1 == IF p0 # End /\ Mem(p0) = "-" THEN p0 + 1 ELSE p0
        ch == Mem(p1)
    IN  IF ch = "0" THEN matchNumberTail(p1 + 1)
        ELSE IF isDigit(ch) THEN matchNumberTail(skipDigits(p1 + 1))
        ELSE [pos |-> p1, ok |-> FALSE]

RECURSIVE matchLiteralLoop(_, _, _)
matchLiteralLoop(p, s, i) ==
    IF i > Len(s) THEN [pos |-> p + 1, ok |-> TRUE]
    ELSE IF p + 1 = End \/ Mem(p + 1) # s[i] THEN [pos |-> p + 1, ok |-> FALSE]
    ELSE matchLiteralLoop(p + 1, s, i + 1)

matchLiteral(p0, s) == matchLiteralLoop(p0, s, 1)

\* count is a u8 and wraps at 256
matchFloatHexLoop(p, count) ==
    LET Counted(stop) == [pos |-> stop, count |-> (count + (stop - p)) % 256]
    IN  IF p = End \/ ~isHexDigit(Mem(p)) THEN Counted(p)
        ELSE Counted(Least({q \in p..End : q = End \/ ~isHexDigit(Mem(q))}))

matchFloatHex(p0) ==
    LET r == matchFloatHexLoop(p0, 0) IN
    [pos |-> r.pos, rc |-> IF r.count = 8 THEN 1 ELSE IF r.count = 16 THEN 2 ELSE 0]

\* the loop  while (m_pos != m_end && isWhitespace(*m_pos))  with its line count
RECURSIVE skipWhitespaceFrom(_, _)
skipWhitespaceFrom(p, line) ==
    IF p # End /\ isWhitespace(Mem(p))
    THEN skipWhitespaceFrom(p + 1, IF Mem(p) = "\n" THEN line + 1 ELSE line)
    ELSE [pos |-> p, line |-> line]

skipWhitespace(S) ==
    LET r == skipWhitespaceFrom(S.m_pos, S.m_currentLine) IN
    [S EXCEPT !.m_pos = r.pos, !.m_currentLine = r.line]

\* the recovery loop  while (m_pos != m_end && !isValid(*m_pos)) ++m_pos;  it runs
\* off the mapped memory when it starts behind m_end and meets no valid byte
RECURSIVE skipInvalid(_)
skipInvalid(p) ==
    IF p = End THEN [pos |-> p, fault |-> FALSE]
    ELSE IF p >= MemEnd THEN [pos |-> p, fault |-> TRUE]
    ELSE IF isValid(Mem(p)) THEN [pos |-> p, fault |-> FALSE]
    ELSE skipInvalid(p + 1)

\* the classification part of getNextToken: the token type, the offset after the
\* match and the message of logInvalidTokenError ("" where the code logs directly)
Classify(start) ==
    LET ch == Mem(start) IN
    IF isDigit(ch) \/ ch = "-"
    THEN IF start + 1 < End /\ Mem(start + 1) = "x"
         THEN LET r == matchFloatHex(start + 2) IN
              [pos |-> r.pos,
               type |-> IF r.rc = 1 THEN "JSON_FLOAT_HEX"
                        ELSE IF r.rc = 2 THEN "JSON_DOUBLE_HEX" ELSE "INVALID",
               message |-> "floating point number in hexadecimal expected"]
         ELSE LET r == matchNumber(start) IN
              [pos |-> r.pos, type |-> IF r.ok THEN "JSON_NUMBER" ELSE "INVALID",
               message |-> "number expected"]
    ELSE IF ch = QUOTE
    THEN LET r == matchString(start) IN
         [pos |-> r.pos, type |-> IF r.ok THEN "JSON_STRING" ELSE "INVALID",
          message |-> "string expected"]
    ELSE IF ch = "t"
    THEN LET r == matchLiteral(start, <<"r", "u", "e">>) IN
         [pos |-> r.pos, type |-> IF r.ok THEN "JSON_TRUE" ELSE "INVALID",
          message |-> "true expected"]
    ELSE IF ch = "f"
    THEN LET r == matchLiteral(start, <<"a", "l", "s", "e">>) IN
         [pos |-> r.pos, type |-> IF r.ok THEN "JSON_FALSE" ELSE "INVALID",
          message |-> "false expected"]
    ELSE IF ch = "n"
    THEN LET r == matchLiteral(start, <<"u", "l", "l">>) IN
         [pos |-> r.pos, type |-> IF r.ok THEN "JSON_NULL" ELSE "INVALID",
          message |-> "null expected"]
    ELSE IF ch = "{" THEN [pos |-> start + 1, type |-> "JSON_OBJECT_BEGIN", message |-> ""]
    ELSE IF ch = "[" THEN [pos |-> start + 1, type |-> "JSON_ARRAY_BEGIN", message |-> ""]
    ELSE IF ch = "}" THEN [pos |-> start + 1, type |-> "JSON_OBJECT_END", message |-> ""]
    ELSE IF ch = "]" THEN [pos |-> start + 1, type |-> "JSON_ARRAY_END", message |-> ""]
    ELSE IF ch = ":" THEN [pos |-> start + 1, type |-> "JSON_COLON", message |-> ""]
    ELSE IF ch = "," THEN [pos |-> start + 1, type |-> "JSON_COMMA", message |-> ""]
    ELSE [pos |-> start, type |-> "INVALID", message |-> ""]

\* getNextToken followed by the caller's  m_currentToken = ...  (every call site
\* assigns the result to m_currentToken)
getNextToken(S) ==
    LET start == S.m_pos
        Logged(c) == IF c.message = ""
                     THEN IF c.type = "INVALID"
                          THEN appendToErrorLog(S, InvalidCharLength(S.m_currentLine))
                          ELSE S
                     ELSE logInvalidTokenError(S, c.type, c.message)
        Skipped(c) == IF c.type = "INVALID" THEN skipInvalid(c.pos + 1)
                      ELSE [pos |-> c.pos, fault |-> FALSE]
        Finish(c, logged, skipped) ==
            IF logged.halt # "none" THEN logged
            ELSE IF skipped.fault THEN [logged EXCEPT !.halt = "fault"]
            ELSE skipWhitespace([logged EXCEPT !.m_pos = skipped.pos,
                                               !.m_currentToken =
                                                   JsonToken(c.type, start, skipped.pos - start)])
        Scan(c) == Finish(c, Logged(c), Skipped(c))
    IN  IF start >= End THEN [S EXCEPT !.m_currentToken = JsonToken("JSON_EOF", start, 0)]
        ELSE Scan(Classify(start))

----------------------------------------------------------------------------
(* The parser object as a record, so that the helper functions can be      *)
(* written as the code writes them: each takes the object and returns it.  *)

Self ==
    [m_pos |-> m_pos, m_errorCode |-> m_errorCode, m_nodeBuffer |-> m_nodeBuffer,
     m_nodeCount |-> m_nodeCount, m_tokenCapacity |-> m_tokenCapacity,
     m_currentToken |-> m_currentToken, m_currentLine |-> m_currentLine,
     m_errorLogPos |-> m_errorLogPos, halt |-> halt, calls |-> calls,
     pushFailed |-> pushFailed,
     oobWrite |-> oobWrite, expectFail |-> expectFail]

\* a store into m_nodeBuffer[idx]; the history flag records a store outside the
\* slots 0..m_nodeCount-1 in use
WriteNode(S, idx, node) ==
    LET flagged == [S EXCEPT !.oobWrite = @ \/ ~(idx \in 0..(S.m_nodeCount - 1))] IN
    IF idx \in DOMAIN S.m_nodeBuffer
    THEN [flagged EXCEPT !.m_nodeBuffer[idx] = node]
    ELSE flagged

\* pushNode with the capacity test off by one
pushNode_offByOne(S) ==
    IF S.halt # "none" THEN [S |-> S, ok |-> FALSE]
    ELSE IF S.m_nodeCount <= S.m_tokenCapacity
    THEN IF TokenNodeType(S.m_currentToken.type) = "UNREACHABLE"
         THEN [S |-> [S EXCEPT !.halt = "assert"], ok |-> FALSE]
         ELSE [S |-> WriteNode([S EXCEPT !.m_nodeCount = @ + 1], S.m_nodeCount,
                               JsonNode(S.m_currentToken)),
               ok |-> TRUE]
    ELSE [S |-> appendToErrorLog([S EXCEPT !.m_errorCode = "CAPACITY_EXCEEDED",
                                           !.pushFailed = TRUE],
                                 CapacityMessageLength),
          ok |-> FALSE]

pushNode(S) ==
    IF S.halt # "none" THEN [S |-> S, ok |-> FALSE]
    ELSE IF S.m_nodeCount < S.m_tokenCapacity
    THEN IF TokenNodeType(S.m_currentToken.type) = "UNREACHABLE"
         THEN [S |-> [S EXCEPT !.halt = "assert"], ok |-> FALSE]
         ELSE [S |-> WriteNode([S EXCEPT !.m_nodeCount = @ + 1], S.m_nodeCount,
                               JsonNode(S.m_currentToken)),
               ok |-> TRUE]
    ELSE [S |-> appendToErrorLog([S EXCEPT !.m_errorCode = "CAPACITY_EXCEEDED",
                                           !.pushFailed = TRUE],
                                 CapacityMessageLength),
          ok |-> FALSE]

expect(S, expected, message) ==
    IF expected \/ S.halt # "none" THEN [S |-> S, ok |-> expected]
    ELSE LET marked ==
                 IF S.m_currentToken.type # "INVALID"
                 THEN appendToErrorLog(
                          [S EXCEPT !.m_currentToken.type = "SYNTACTIC_ERROR",
                                    !.m_errorCode = "SYNTACTIC_ERRORS",
                                    !.expectFail = "syntactic"],
                          SyntacticErrorLength(S.m_currentLine, message))
                 ELSE [S EXCEPT !.m_errorCode = "INVALID_TOKENS",
                                !.expectFail = "invalid"]
         IN  [S |-> pushNode(marked).S, ok |-> FALSE]

\* index of the node getLastNode() points to (-1: one slot before the buffer)
getLastNode(S) == S.m_nodeCount - 1

\* ++complex_node->count
IncCount(S, idx) ==
    IF idx \in DOMAIN S.m_nodeBuffer
    THEN WriteNode(S, idx, [S.m_nodeBuffer[idx] EXCEPT !.count = @ + 1])
    ELSE WriteNode(S, idx, Uninit)

\* a link to the node that follows the previous one in the buffer
SetNext_adjacent(S, idx, target) ==
    IF idx \in DOMAIN S.m_nodeBuffer
    THEN WriteNode(S, idx, [S.m_nodeBuffer[idx] EXCEPT !.next = idx + 1])
    ELSE WriteNode(S, idx, Uninit)

\* previous->next = last_node_ptr
SetNext(S, idx, target) ==
    IF idx \in DOMAIN S.m_nodeBuffer
    THEN WriteNode(S, idx, [S.m_nodeBuffer[idx] EXCEPT !.next = target])
    ELSE WriteNode(S, idx, Uninit)

\* the two scans of logInvalidTokenPosition
RECURSIVE scanBack(_, _)
scanBack(before_begin, newline_count) ==
    IF newline_count < JSON_INVALID_TOKEN_NEWLINES /\ before_begin # 0
    THEN scanBack(before_begin - 1,
                  newline_count + (IF Mem(before_begin) = "\n" THEN 1 ELSE 0))
    ELSE before_begin

RECURSIVE scanForward(_, _)
scanForward(after_end, newline_count) ==
    IF newline_count < JSON_INVALID_TOKEN_NEWLINES /\ after_end # End
    THEN IF after_end >= MemEnd THEN [pos |-> after_end, fault |-> TRUE]
         ELSE scanForward(after_end + 1,
                          newline_count + (IF Mem(after_end) = "\n" THEN 1 ELSE 0))
    ELSE [pos |-> after_end, fault |-> FALSE]

\* characters up to the next zero byte
StrLen(i) ==
    IF Mem(i) = NUL THEN 0
    ELSE Least({j \in i..MemEnd : Mem(j) = NUL}) - i

\* what "%.*s" prints: a negative precision (the u32 difference read as int) counts
\* as no precision
PrintedLength(from, precision) ==
    IF precision < 0 THEN StrLen(from)
    ELSE IF precision < StrLen(from) THEN precision ELSE StrLen(from)

logInvalidTokenPosition(S) ==
    LET begin == S.m_currentToken.data
        end == S.m_currentToken.data + S.m_currentToken.length
        before_begin == scanBack(begin, 0) + 1
        fwd == scanForward(end, 0)
        after_end == fwd.pos - 1
    IN  IF fwd.fault THEN [S EXCEPT !.halt = "fault"]
        ELSE appendToErrorLog(S,
                 4 + PrintedLength(before_begin, begin - before_begin)
                 + 5 + PrintedLength(begin, S.m_currentToken.length)
                 + 5 + PrintedLength(end, after_end - end) + 5)

----------------------------------------------------------------------------
(* The inputs: every short text over InputChars, the well-formed documents *)
(* of the JSON grammar up to a node budget, closed roots followed by more  *)
(* text, and one long digit run.                                           *)

InputChars == {"[", "]", "{", "}", ",", ":", QUOTE, "1", "/", "\n"}

RECURSIVE TextsUpTo(_)
TextsUpTo(n) ==
    IF n = 0 THEN {<< >>}
    ELSE LET shorter == TextsUpTo(n - 1) IN
         shorter \cup {Append(t, c) : t \in {u \in shorter : Len(u) = n - 1}, c \in InputChars}

CharInputs == TextsUpTo(MaxLen)

\* A value of the JSON grammar with the number of nodes it denotes: one per array,
\* object, key and scalar.
Scalars ==
    {[text |-> <<"1">>, nodes |-> 1],
     [text |-> <<QUOTE, QUOTE>>, nodes |-> 1],
     [text |-> <<QUOTE, "/", QUOTE>>, nodes |-> 1]}

KeyText == <<QUOTE, QUOTE>>

RECURSIVE Values(_), ItemLists(_), MemberLists(_)

\* non-empty  value (',' value)*  with at most n nodes
ItemLists(n) ==
    IF n <= 0 THEN {}
    ELSE UNION {{v} \cup {[text |-> v.text \o <<",">> \o l.text, nodes |-> v.nodes + l.nodes]
                          : l \in ItemLists(n - v.nodes)}
                : v \in Values(n)}

\* non-empty  string ':' value (',' string ':' value)*  with at most n nodes
MemberLists(n) ==
    IF n <= 1 THEN {}
    ELSE UNION {LET m == [text |-> KeyText \o <<":">> \o v.text, nodes |-> 1 + v.nodes] IN
                {m} \cup {[text |-> m.text \o <<",">> \o l.text, nodes |-> m.nodes + l.nodes]
                          : l \in MemberLists(n - m.nodes)}
                : v \in Values(n - 1)}

Containers(n) ==
    IF n <= 0 THEN {}
    ELSE {[text |-> <<"[">> \o l.text \o <<"]">>, nodes |-> 1 + l.nodes]
              : l \in {[text |-> << >>, nodes |-> 0]} \cup ItemLists(n - 1)}
         \cup
         {[text |-> <<"{">> \o l.text \o <<"}">>, nodes |-> 1 + l.nodes]
              : l \in {[text |-> << >>, nodes |-> 0]} \cup MemberLists(n - 1)}

Values(n) == IF n <= 0 THEN {} ELSE Scalars \cup Containers(n)

\* document -> array | object
Docs == Containers(MaxDocNodes)
DocTexts == {d.text : d \in Docs}

\* nodes a well-formed document denotes, the end-of-input node included
DocNodeCount(text) == (CHOOSE d \in Docs : d.text = text).nodes + 1

\* a closed root followed by text that is not all whitespace
Trailers == {t \in TextsUpTo(MaxTrail) : \E i \in 1..Len(t) : ~isWhitespace(t[i])}
FirstRoots == {d.text : d \in Containers(2)}
TrailedTexts == {r \o t : r \in FirstRoots, t \in Trailers}

LongInputs == {[i \in 1..LongLen |-> "1"]}

Inputs == CharInputs \cup DocTexts \cup TrailedTexts \cup LongInputs

\* memory behind the input: zero bytes at once, or a newline and a bracket first
PastEnd == {<< >>, <<"\n", "]">>}

----------------------------------------------------------------------------
(* Init: the state after JsonParser(data, length, buffer, capacity).       *)

\* no library function has been called yet
NoQuery == [fn |-> "none"]
NoAnswer == [fn |-> "none"]

EmptyBuffer(capacity) == [i \in 0..(capacity - 1) |-> Uninit]

SetUp(text, behind, capacity) ==
    /\ data = text
    /\ past = behind
    /\ m_pos = 0
    /\ m_errorCode = "NOT_DONE"
    /\ m_nodeBuffer = EmptyBuffer(capacity)
    /\ m_nodeCount = 0
    /\ m_tokenCapacity = capacity
    /\ m_currentToken = NoToken
    /\ m_currentLine = 1
    /\ m_errorLogPos = 0
    /\ halt = "none"
    /\ pc = "idle"
    /\ stack = << >>
    /\ result = TRUE
    /\ calls = 0
    /\ pushFailed = FALSE
    /\ oobWrite = FALSE
    /\ expectFail = "none"
    /\ query = NoQuery
    /\ answer = NoAnswer

Init == \E text \in Inputs, behind \in PastEnd, capacity \in 0..MaxCap :
            SetUp(text, behind, capacity)

----------------------------------------------------------------------------
(* Control: the stores that end a step, calls and returns.                 *)

\* write the object back; a process that exited or faulted stops where it is
Commit(S, label, frames, res) ==
    IF S.halt # "none"
    THEN /\ halt' = S.halt
         /\ pc' = "halted"
         /\ UNCHANGED << data, past, m_pos, m_errorCode, m_nodeBuffer, m_nodeCount,
                         m_tokenCapacity, m_currentToken, m_currentLine, m_errorLogPos,
                         stack, result, calls, pushFailed, oobWrite, expectFail,
                         query, answer >>
    ELSE /\ m_pos' = S.m_pos
         /\ m_errorCode' = S.m_errorCode
         /\ m_nodeBuffer' = S.m_nodeBuffer
         /\ m_nodeCount' = S.m_nodeCount
         /\ m_tokenCapacity' = S.m_tokenCapacity
         /\ m_currentToken' = S.m_currentToken
         /\ m_currentLine' = S.m_currentLine
         /\ m_errorLogPos' = S.m_errorLogPos
         /\ halt' = S.halt
         /\ calls' = S.calls
         /\ pushFailed' = S.pushFailed
         /\ oobWrite' = S.oobWrite
         /\ expectFail' = S.expectFail
         /\ pc' = label
         /\ stack' = frames
         /\ result' = res
         /\ UNCHANGED << data, past, query, answer >>

Frame(fn) ==
    [fn |-> fn, complex_node |-> Nil, previous_key_ptr |-> Nil, previous_value_ptr |-> Nil]

\* call parseArray() or parseObject() from the frames given
Call(S, frames, is_array) ==
    IF is_array THEN Commit(S, "A_enter", <<Frame("parseArray")>> \o frames, TRUE)
    ELSE Commit(S, "O_enter", <<Frame("parseObject")>> \o frames, TRUE)

\* return res from the innermost call to the statement after its call site
Return(S, res) ==
    LET frames == Tail(stack)
        label == IF frames = << >> THEN "P_loop"
                 ELSE IF Head(frames).fn = "parseArray" THEN "A_after" ELSE "O_after"
    IN  Commit(S, label, frames, res)

\* the frames with the innermost one replaced
WithFrame(f) == <<f>> \o Tail(stack)

Running == halt = "none"

----------------------------------------------------------------------------
(* Parse.                                                                  *)

\* Parse(new_buffer, new_capacity) with new_buffer != nullptr, up to the loop
ParseNew(capacity) ==
    /\ Running /\ pc = "idle"
    /\ Commit(skipWhitespace([Self EXCEPT !.m_pos = 0,
                                          !.m_errorCode = "NOT_DONE",
                                          !.m_nodeBuffer = EmptyBuffer(capacity),
                                          !.m_nodeCount = 0,
                                          !.m_tokenCapacity = capacity,
                                          !.m_currentLine = 1,
                                          !.m_errorLogPos = 0,
                                          !.calls = 1,
                                          !.pushFailed = FALSE,
                                          !.expectFail = "none"]),
              "P_loop", << >>, TRUE)

\* IsValid() that never reports a finished parse
IsValid_never(S) == FALSE

\* IsValid()
IsValid(S) == S.m_errorCode = "VALID_JSON"

\* Parse() with new_buffer == nullptr, up to the loop
ParseAgain ==
    /\ Running /\ pc = "idle"
    /\ LET S == [Self EXCEPT !.calls = IF @ < 2 THEN @ + 1 ELSE @,
                             !.pushFailed = FALSE,
                             !.expectFail = "none"]
       IN  IF IsValid(S) THEN Commit(S, "idle", << >>, result)
           ELSE Commit(skipWhitespace(S), "P_loop", << >>, TRUE)

\* one pass of  while (loop_result && m_pos < m_end)  up to the call of
\* parseArray/parseObject; result holds loop_result
ParseLoop ==
    /\ Running /\ pc = "P_loop"
    /\ IF ~(result /\ m_pos < End)
       THEN Commit(Self, IF result THEN "P_eof" ELSE "P_fin", << >>, result)
       ELSE \E scanned \in {getNextToken(Self)} :
            \E isArray \in {scanned.m_currentToken.type = "JSON_ARRAY_BEGIN"},
               isObject \in {scanned.m_currentToken.type = "JSON_OBJECT_BEGIN"} :
            \E e \in {expect(scanned, isArray \/ isObject, "Array or object expected")} :
                IF ~e.ok THEN Commit(e.S, "P_fin", << >>, FALSE)
                ELSE Call(pushNode(e.S).S, << >>, isArray)

\* if (loop_result) { m_currentToken = getNextToken(); loop_result = pushNode(); }
ParseEof ==
    /\ Running /\ pc = "P_eof"
    /\ \E p \in {pushNode(getNextToken(Self))} :
           Commit(p.S, "P_fin", << >>, p.ok)

\* the end of Parse: the status or the source context dump
ParseFinish ==
    /\ Running /\ pc = "P_fin"
    /\ IF result THEN Commit([Self EXCEPT !.m_errorCode = "VALID_JSON"], "idle", << >>, result)
       ELSE Commit(logInvalidTokenPosition(Self), "idle", << >>, result)

----------------------------------------------------------------------------
(* parseArray.                                                             *)

ArrayEnter ==
    /\ Running /\ pc = "A_enter"
    /\ \E S \in {getNextToken(Self)} :
           IF S.halt = "none" /\ S.m_currentToken.type = "JSON_ARRAY_END" THEN Return(S, TRUE)
           ELSE Commit(S, "A_loop",
                       WithFrame([Head(stack) EXCEPT !.complex_node = getLastNode(S),
                                                     !.previous_value_ptr = Nil]),
                       TRUE)

\* the loop test and the body up to the recursive call
ArrayLoop ==
    /\ Running /\ pc = "A_loop"
    /\ IF ~(m_pos < End) THEN Return(Self, TRUE)
       ELSE \E f \in {Head(stack)} :
            \E is_first_node \in {f.previous_value_ptr = Nil},
               is_primitive \in {isPrimitiveValueToken(m_currentToken)},
               is_array \in {m_currentToken.type = "JSON_ARRAY_BEGIN"},
               is_object \in {m_currentToken.type = "JSON_OBJECT_BEGIN"} :
            \E e \in {expect(Self, is_primitive \/ is_array \/ is_object,
                             IF is_first_node THEN "value or array end expected"
                             ELSE "value expected")} :
            \E p \in {pushNode(e.S)} :
            \E counted \in {IncCount(p.S, f.complex_node)} :
            \E last_node_ptr \in {getLastNode(counted)} :
            \E linked \in {IF ~is_first_node
                           THEN SetNext(counted, f.previous_value_ptr, last_node_ptr)
                           ELSE counted},
               frames \in {WithFrame([f EXCEPT !.previous_value_ptr = last_node_ptr])} :
                IF ~e.ok THEN Return(e.S, FALSE)
                ELSE IF ~p.ok THEN Return(p.S, FALSE)
                ELSE IF is_array \/ is_object THEN Call(linked, frames, is_array)
                ELSE Commit(linked, "A_after", frames, TRUE)

\* after the element: its result, then ']' or ',' and the next token
ArrayAfter ==
    /\ Running /\ pc = "A_after"
    /\ IF ~result THEN Return(Self, FALSE)
       ELSE \E S \in {getNextToken(Self)} :
            \E e \in {expect(S, S.m_currentToken.type = "JSON_COMMA",
                             "comma or array end expected")} :
                IF S.halt = "none" /\ S.m_currentToken.type = "JSON_ARRAY_END"
                THEN Return(S, TRUE)
                ELSE IF ~e.ok THEN Return(e.S, FALSE)
                ELSE Commit(getNextToken(e.S), "A_loop", stack, TRUE)

----------------------------------------------------------------------------
(* parseObject.                                                            *)

ObjectEnter ==
    /\ Running /\ pc = "O_enter"
    /\ \E S \in {getNextToken(Self)} :
           IF S.halt = "none" /\ S.m_currentToken.type = "JSON_OBJECT_END" THEN Return(S, TRUE)
           ELSE Commit(S, "O_key",
                       WithFrame([Head(stack) EXCEPT !.complex_node = getLastNode(S),
                                                     !.previous_key_ptr = Nil,
                                                     !.previous_value_ptr = Nil]),
                       TRUE)

\* the loop test, the key and its link
ObjectKey ==
    /\ Running /\ pc = "O_key"
    /\ IF ~(m_pos < End) THEN Return(Self, TRUE)
       ELSE \E f \in {Head(stack)} :
            \E is_first_node \in {f.previous_value_ptr = Nil} :
            \E e \in {expect(Self, m_currentToken.type = "JSON_STRING",
                             IF is_first_node THEN "string (key) or object end expected"
                             ELSE "string (key) expected")} :
            \E p \in {pushNode([e.S EXCEPT !.m_currentToken.type = "JSON_KEY"])} :
            \E last_node_ptr \in {getLastNode(p.S)} :
            \E linked \in {IF f.previous_key_ptr # Nil
                           THEN SetNext(p.S, f.previous_key_ptr, last_node_ptr)
                           ELSE p.S} :
                IF ~e.ok THEN Return(e.S, FALSE)
                ELSE IF ~p.ok THEN Return(p.S, FALSE)
                ELSE Commit(linked, "O_val",
                            WithFrame([f EXCEPT !.previous_key_ptr = last_node_ptr]), TRUE)

\* the colon, the value and its link, up to the recursive call
ObjectValue ==
    /\ Running /\ pc = "O_val"
    /\ \E f \in {Head(stack)}, colon \in {getNextToken(Self)} :
       \E e1 \in {expect(colon, colon.m_currentToken.type = "JSON_COLON", "colon expected")} :
       \E S \in {getNextToken(e1.S)} :
       \E is_primitive \in {isPrimitiveValueToken(S.m_currentToken)},
          is_array \in {S.m_currentToken.type = "JSON_ARRAY_BEGIN"},
          is_object \in {S.m_currentToken.type = "JSON_OBJECT_BEGIN"} :
       \E e2 \in {expect(S, is_primitive \/ is_array \/ is_object, "value expected")} :
       \E p \in {pushNode(e2.S)} :
       \E counted \in {IncCount(p.S, f.complex_node)} :
       \E last_node_ptr \in {getLastNode(counted)} :
       \E linked \in {IF f.previous_value_ptr # Nil
                      THEN SetNext(counted, f.previous_value_ptr, last_node_ptr)
                      ELSE counted},
          frames \in {WithFrame([f EXCEPT !.previous_value_ptr = last_node_ptr])} :
           IF ~e1.ok THEN Return(e1.S, FALSE)
           ELSE IF ~e2.ok THEN Return(e2.S, FALSE)
           ELSE IF ~p.ok THEN Return(p.S, FALSE)
           ELSE IF is_array \/ is_object THEN Call(linked, frames, is_array)
           ELSE Commit(linked, "O_after", frames, TRUE)

\* after the value: its result, then '}' or ',' and the next token
ObjectAfter ==
    /\ Running /\ pc = "O_after"
    /\ IF ~result THEN Return(Self, FALSE)
       ELSE \E S \in {getNextToken(Self)} :
            \E e \in {expect(S, S.m_currentToken.type = "JSON_COMMA",
                             "comma or object end expected")} :
                IF S.halt = "none" /\ S.m_currentToken.type = "JSON_OBJECT_END"
                THEN Return(S, TRUE)
                ELSE IF ~e.ok THEN Return(e.S, FALSE)
                ELSE Commit(getNextToken(e.S), "O_key", stack, TRUE)

----------------------------------------------------------------------------

Next ==
    \/ \E capacity \in 0..MaxCap : ParseNew(capacity)
    \/ ParseAgain
    \/ ParseLoop
    \/ ParseEof
    \/ ParseFinish
    \/ ArrayEnter
    \/ ArrayLoop
    \/ ArrayAfter
    \/ ObjectEnter
    \/ ObjectKey
    \/ ObjectValue
    \/ ObjectAfter

Spec == Init /\ [][Next]_vars

----------------------------------------------------------------------------
(* The caller loop of example_with_node_buffer: a buffer of capacity 1,    *)
(* Parse(), and while the status is CAPACITY_EXCEEDED a buffer twice as    *)
(* large and Parse(&buf[0], buf_capacity).                                 *)

MaxGrow == 16        \* the loop is followed up to this capacity

InitGrow == \E text \in Inputs, behind \in PastEnd : SetUp(text, behind, 1)

GrowFirst == calls = 0 /\ ParseAgain

GrowRetry ==
    /\ calls >= 1
    /\ m_errorCode = "CAPACITY_EXCEEDED"
    /\ 2 * m_tokenCapacity <= MaxGrow
    /\ ParseNew(2 * m_tokenCapacity)

NextGrow ==
    \/ GrowFirst
    \/ GrowRetry
    \/ ParseLoop
    \/ ParseEof
    \/ ParseFinish
    \/ ArrayEnter
    \/ ArrayLoop
    \/ ArrayAfter
    \/ ObjectEnter
    \/ ObjectKey
    \/ ObjectValue
    \/ ObjectAfter

SpecGrow == InitGrow /\ [][NextGrow]_vars

----------------------------------------------------------------------------
(* Properties.                                                             *)

\* a Parse call has returned / the first one since the reset has
Returned == pc = "idle" /\ calls >= 1
FirstReturned == pc = "idle" /\ calls = 1

\* C1: a well-formed document parsed into a buffer with enough capacity ends
\* VALID_JSON with as many nodes as the document denotes (arrays, objects, keys,
\* scalars and one end-of-input node).
C1_ValidWithNodeCount ==
    (FirstReturned /\ data \in DocTexts /\ m_tokenCapacity >= DocNodeCount(data))
        => (m_errorCode = "VALID_JSON" /\ m_nodeCount = DocNodeCount(data))

\* the texts a well-formed document is cut to right after an opening bracket, an
\* element, a comma or a key
QuoteCount(t) == Cardinality({i \in 1..Len(t) : t[i] = QUOTE})
EndsAtCut(t) ==
    \/ t[Len(t)] \in {"[", "{", ",", "1", "]", "}"}
    \/ t[Len(t)] = QUOTE /\ QuoteCount(t) % 2 = 0
UnclosedTexts ==
    {p \in UNION {{SubSeq(t, 1, k) : k \in 1..(Len(t) - 1)} : t \in DocTexts} : EndsAtCut(p)}

\* C2: an input that ends before its root container is closed never ends
\* VALID_JSON.
C2_UnclosedNeverValid ==
    (FirstReturned /\ data \in UnclosedTexts) => m_errorCode # "VALID_JSON"

\* C3: a closed root followed by text that is not whitespace never ends VALID_JSON.
C3_SingleRoot ==
    (FirstReturned /\ data \in TrailedTexts) => m_errorCode # "VALID_JSON"

\* C4: when Parse has ended VALID_JSON, node 0 is an array or object and the last
\* node is the end-of-input node.
C4_RootFirstEofLast ==
    (Returned /\ m_errorCode = "VALID_JSON")
        => /\ m_nodeCount >= 2
           /\ m_nodeBuffer[0].type \in {"JSON_ARRAY", "JSON_OBJECT"}
           /\ m_nodeBuffer[m_nodeCount - 1].type = "JSON_EOF"

C6_AbortAtFirstFailedPush ==
    /\ [][(pushFailed /\ pc # "idle")
            => (m_pos' = m_pos /\ m_nodeBuffer' = m_nodeBuffer /\ m_nodeCount' = m_nodeCount)]_vars
    /\ []((Returned /\ pushFailed) => m_errorCode = "CAPACITY_EXCEEDED")

\* C7: for a well-formed document of N nodes every parse into fewer than N slots
\* ends CAPACITY_EXCEEDED, and the doubling loop stops with VALID_JSON and
\* GetCount() = N.
C7_GrowAndRetry ==
    (Returned /\ data \in DocTexts)
        => /\ m_tokenCapacity < DocNodeCount(data) => m_errorCode = "CAPACITY_EXCEEDED"
           /\ m_errorCode # "CAPACITY_EXCEEDED"
                  => (m_errorCode = "VALID_JSON" /\ m_nodeCount = DocNodeCount(data))

\* C8: Parse() without a new buffer after a VALID_JSON parse changes nothing.
C8_ParseAgainNoOp ==
    [][(ParseAgain /\ m_errorCode = "VALID_JSON")
         => UNCHANGED << m_errorCode, m_nodeCount, m_tokenCapacity, m_nodeBuffer, m_pos,
                         m_currentLine, m_errorLogPos, m_currentToken, pc >>]_vars

\* a second Parse() on the valid parse of [1]
C8_Witness ==
    /\ pc = "idle" /\ calls = 2
    /\ data = <<"[", "1", "]">>
    /\ m_errorCode = "VALID_JSON"
    /\ m_nodeCount = 3

\* C9: a parse stopped by a failed expectation ends INVALID_TOKENS when the token
\* was scanned invalid and SYNTACTIC_ERRORS otherwise, whatever the capacity;
\* CAPACITY_EXCEEDED is the status only when no expectation failed.
C9_StatusOfFailedExpectation ==
    Returned
        => /\ expectFail = "invalid" => m_errorCode = "INVALID_TOKENS"
           /\ expectFail = "syntactic" => m_errorCode = "SYNTACTIC_ERRORS"
           /\ m_errorCode = "CAPACITY_EXCEEDED" => expectFail = "none"

\* C10: the text one parse attempt appends to the error log fits the log, so the
\* assertion of appendToErrorLog does not end the process.
C10_LogFitsOneAttempt == calls <= 1 => halt # "assert"

----------------------------------------------------------------------------
(* 64-bit integers.  A u64 is four 16-bit limbs, least significant first,  *)
(* so that every intermediate product stays a small integer; arithmetic    *)
(* wraps at 2^64 as unsigned arithmetic does.                              *)

Limb == 65536

U64Zero == <<0, 0, 0, 0>>

\* (n * m + d) mod 2^64 for small m and d
U64MulAdd(n, m, d) ==
    LET Carry(lo, hi) == hi * m + lo \div Limb
        c1 == n[1] * m + d
        c2 == Carry(c1, n[2])
        c3 == Carry(c2, n[3])
        c4 == Carry(c3, n[4])
    IN  <<c1 % Limb, c2 % Limb, c3 % Limb, c4 % Limb>>

\* n >= k and n % k for a small positive k
U64GeSmall(n, k) == n[4] # 0 \/ n[3] # 0 \/ n[2] # 0 \/ n[1] >= k
U64ModSmall(n, k) == ((((((n[4] % k) * Limb + n[3]) % k) * Limb + n[2]) % k) * Limb + n[1]) % k

DecimalDigits == <<"0", "1", "2", "3", "4", "5", "6", "7", "8", "9">>

\* *p - '0'
DigitValue(ch) == (CHOOSE d \in 1..10 : DecimalDigits[d] = ch) - 1

\* the characters 0x20 .. 0x7e in the order of their codes (the place of 0x60,
\* which no text of the model holds, is left empty)
Printable ==
    <<" ", "!", "\"", "#", "$", "%", "&", "'", "(", ")", "*", "+", ",", "-", ".", "/",
      "0", "1", "2", "3", "4", "5", "6", "7", "8", "9", ":", ";", "<", "=", ">", "?",
      "@", "A", "B", "C", "D", "E", "F", "G", "H", "I", "J", "K", "L", "M", "N", "O",
      "P", "Q", "R", "S", "T", "U", "V", "W", "X", "Y", "Z", "[", "\\", "]", "^", "_",
      "", "a", "b", "c", "d", "e", "f", "g", "h", "i", "j", "k", "l", "m", "n", "o",
      "p", "q", "r", "s", "t", "u", "v", "w", "x", "y", "z", "{", "|", "}", "~">>

\* the value of a byte of the input (a line feed or a printable character)
ByteOf(ch) ==
    IF ch = "\n" THEN 10
    ELSE IF \E i \in 1..Len(Printable) : Printable[i] = ch
         THEN 31 + (CHOOSE i \in 1..Len(Printable) : Printable[i] = ch)
    ELSE 0

\* memcmp(s + from, t, n) > 0, the n bytes being inside s
MemCmpGreater(s, from, t, n) ==
    \E i \in 1..n : /\ ByteOf(s[from + i]) > ByteOf(t[i])
                    /\ \A j \in 1..(i - 1) : s[from + j] = t[j]

U64MaxText ==
    <<"1", "8", "4", "4", "6", "7", "4", "4", "0", "7", "3", "7", "0", "9", "5", "5", "1",
      "6", "1", "5">>

\* the digit loop of to_u64: the offset it stops at and the wrapped sum
RECURSIVE to_u64_loop(_, _, _)
to_u64_loop(s, p, n) ==
    IF p # Len(s) /\ isDigit(s[p + 1])
    THEN to_u64_loop(s, p + 1, U64MulAdd(n, 10, DigitValue(s[p + 1])))
    ELSE [p |-> p, n |-> n]

\* util::to_u64(s + from, s + Len(s), &out): the returned count and *out
to_u64(s, from) ==
    LET Checked(r) ==
            [result |-> IF r.p - from > 20
                           \/ (r.p - from = 20 /\ MemCmpGreater(s, from, U64MaxText, 20))
                        THEN 0 ELSE r.p - from,
             out |-> r.n]
    IN  Checked(to_u64_loop(s, from, U64Zero))

\* the signed 64-bit sum n * 10 + d leaves the range of s64 (n is not negative):
\* the sum does not fit 63 bits
S64Overflows(n, d) ==
    LET Carry(lo, hi) == hi * 10 + lo \div Limb
    IN  Carry(Carry(Carry(n[1] * 10 + d, n[2]), n[3]), n[4]) >= Limb \div 2

\* -n in two's complement
U64Neg(n) == U64MulAdd([i \in 1..4 |-> Limb - 1 - n[i]], 1, 1)
S64Min == <<0, 0, 0, Limb \div 2>>

S64MaxText == <<"9", "2", "2", "3", "3", "7", "2", "0", "3", "6",
                "8", "5", "4", "7", "7", "5", "8", "0", "7">>
S64MinText == <<"-">> \o SubSeq(S64MaxText, 1, 18) \o <<"8">>

\* the digit loop of to_s64 over memory mem, end being the offset of `end`:
\* the offset it stops at, the wrapped sum, and whether a sum overflowed
RECURSIVE to_s64_loop(_, _, _, _, _)
to_s64_loop(mem, end, p, n, overflow) ==
    IF p # end /\ p < Len(mem) /\ isDigit(mem[p + 1])
    THEN to_s64_loop(mem, end, p + 1, U64MulAdd(n, 10, DigitValue(mem[p + 1])),
                     overflow \/ S64Overflows(n, DigitValue(mem[p + 1])))
    ELSE [p |-> p, n |-> n, overflow |-> overflow]

\* util::to_s64(mem, mem + end, &out): the returned count, *out, and whether a
\* signed operation overflowed on the way
to_s64(mem, end) ==
    LET sign == mem # << >> /\ mem[1] = "-"
        Checked(r) ==
            [result |-> IF \/ ~sign /\ (r.p > 19
                                        \/ (r.p = 19 /\ MemCmpGreater(mem, 0, S64MaxText, 19)))
                           \/ sign /\ (r.p > 20
                                       \/ (r.p = 20 /\ MemCmpGreater(mem, 0, S64MinText, 20)))
                        THEN 0 ELSE r.p,
             out |-> IF sign THEN U64Neg(r.n) ELSE r.n,
             overflow |-> r.overflow \/ (sign /\ r.n = S64Min)]
    IN  Checked(to_s64_loop(mem, end, IF sign THEN 1 ELSE 0, U64Zero, FALSE))

\* util::hex_digit_to_u32; Nil stands for the failed JSON_ASSERT
hex_digit_to_u32(ch) ==
    LET Lower == <<"a", "b", "c", "d", "e", "f">>
        Upper == <<"A", "B", "C", "D", "E", "F">>
    IN  IF isDigit(ch) THEN DigitValue(ch)
        ELSE IF \E i \in 1..6 : Lower[i] = ch THEN 9 + (CHOOSE i \in 1..6 : Lower[i] = ch)
        ELSE IF \E i \in 1..6 : Upper[i] = ch THEN 9 + (CHOOSE i \in 1..6 : Upper[i] = ch)
        ELSE Nil

\* the loop of hex_to_float and hex_to_double: x = x * 16 + digit in a u32 (two
\* limbs), over `count` characters from offset p of s; << >> when a JSON_ASSERT
\* stops it
RECURSIVE hex_loop(_, _, _, _)
hex_loop(s, p, count, x) ==
    IF count = 0 THEN x
    ELSE IF p >= Len(s) \/ hex_digit_to_u32(s[p + 1]) = Nil THEN << >>
    ELSE LET Low(lo) == <<lo % Limb, (x[2] * 16 + lo \div Limb) % Limb>>
         IN  hex_loop(s, p + 1, count - 1, Low(x[1] * 16 + hex_digit_to_u32(s[p + 1])))

\* util::hex_to_float(s): the 32 bits copied into the result
hex_to_float(s) == hex_loop(s, 2, 8, <<0, 0>>)

\* util::hex_to_double(s): the 64 bits copied into the result.  x has 32 bits and
\* sizeof(f64) bytes are copied from it; `behind` is the 4 bytes after x.
hex_to_double(s, behind) ==
    LET Copied(x) == IF x = << >> THEN << >> ELSE x \o behind
    IN  Copied(hex_loop(s, 2, 16, <<0, 0>>))

\* a conversion of strings that a failed JSON_ASSERT stopped
Asserted == [result |-> Nil, idx |-> 0, bytes |-> << >>, fault |-> "assert"]

\* the character an escape letter stands for, as a byte; Nil when the switch
\* of the escapes reaches its default (a failed JSON_ASSERTF)
EscapeByte(ch) ==
    CASE ch = BACKSLASH -> 92 [] ch = "/" -> 47 [] ch = QUOTE -> 34
      [] ch = "0" -> 0 [] ch = "a" -> 7 [] ch = "b" -> 8 [] ch = "t" -> 9 [] ch = "v" -> 11
      [] ch = "f" -> 12 [] ch = "r" -> 13 [] ch = "n" -> 10
      [] OTHER -> Nil

\* codepoint * 16 + digit over the four characters from offset p of s, read
\* without a test of the end; Nil when hex_digit_to_u32 stops at its JSON_ASSERT
Hex4At(s, p) ==
    LET x == hex_loop(s, p, 4, <<0, 0>>) IN IF x = << >> THEN Nil ELSE x[1]

\* util::json_string_character_to_codepoint(s, &idx) for idx = 0 on a text of
\* one-byte characters: the codepoint and the new idx, or the JSON_ASSERT that
\* stops it
json_string_character_to_codepoint(s) ==
    LET Pair(high, extra) ==
            IF extra = Nil THEN Asserted
            ELSE [result |-> (high - 55296) * 1024 + (extra - 56320) + 65536, idx |-> 12,
                  fault |-> "none"]
        Escaped(high) ==
            IF high = Nil THEN Asserted
            ELSE IF high >= 55296 /\ high <= 56319 THEN Pair(high, Hex4At(s, 8))
            ELSE [result |-> high, idx |-> 6, fault |-> "none"]
    IN  IF s = << >> THEN [result |-> 0, idx |-> 1, fault |-> "none"]
        ELSE IF s[1] # BACKSLASH THEN [result |-> ByteOf(s[1]), idx |-> 1, fault |-> "none"]
        ELSE IF Len(s) >= 2 /\ s[2] = "u" THEN Escaped(Hex4At(s, 2))
        ELSE IF Len(s) >= 2 /\ EscapeByte(s[2]) # Nil
             THEN [result |-> EscapeByte(s[2]), idx |-> 2, fault |-> "none"]
        ELSE Asserted

\* the bytes json_string_to_utf8 writes for a codepoint below 0x110000
Utf8Bytes(codepoint) ==
    IF codepoint < 128 THEN <<codepoint>>
    ELSE IF codepoint < 2048
         THEN <<((codepoint \div 64) % 32) + 192, (codepoint % 64) + 128>>
    ELSE IF codepoint < 65536
         THEN <<((codepoint \div 4096) % 16) + 224, ((codepoint \div 64) % 64) + 128,
                (codepoint % 64) + 128>>
    ELSE <<((codepoint \div 262144) % 8) + 240, ((codepoint \div 4096) % 64) + 128,
           ((codepoint \div 64) % 64) + 128, (codepoint % 64) + 128>>

\* util::json_string_to_utf8(dest, s, Len(s)) with a dest: the loop from offset p
\* on, bytes being what was written so far
RECURSIVE json_string_to_utf8(_, _, _)
json_string_to_utf8(s, p, bytes) ==
    LET end == Len(s)
        \* the four digits of an escape, each read after JSON_ASSERT(p < end)
        Digits(q) == IF q + 4 > end THEN Nil ELSE Hex4At(s, q)
        Encoded(q, codepoint) ==
            IF codepoint >= 1114112 THEN Asserted
            ELSE json_string_to_utf8(s, q, bytes \o Utf8Bytes(codepoint))
        \* the low surrogate is read into extra; the sum is formed from codepoint
        Pair(q, codepoint, extra) ==
            IF extra = Nil THEN Asserted
            ELSE Encoded(q + 6, (codepoint - 55296) * 1024 + (codepoint - 56320) + 65536)
        Escaped(q, codepoint) ==
            IF codepoint = Nil THEN Asserted
            ELSE IF codepoint >= 55296 /\ codepoint <= 56319
                 THEN Pair(q, codepoint, Digits(q + 2))
            ELSE Encoded(q, codepoint)
    IN  IF ~(p < end) THEN [bytes |-> bytes, result |-> Len(bytes), fault |-> "none"]
        ELSE IF s[p + 1] # BACKSLASH
             THEN json_string_to_utf8(s, p + 1, bytes \o <<ByteOf(s[p + 1])>>)
        ELSE IF p + 1 < end /\ s[p + 2] = "u" THEN Escaped(p + 6, Digits(p + 2))
        ELSE IF p + 1 < end /\ EscapeByte(s[p + 2]) # Nil
             THEN json_string_to_utf8(s, p + 2, bytes \o <<EscapeByte(s[p + 2])>>)
        ELSE Asserted

----------------------------------------------------------------------------
(* get_value_node.  The path is a sequence of characters with 0-based      *)
(* offsets; nodes are indices into the node buffer, Nil is nullptr.  The   *)
(* counter len of the code always equals end - p and is written so.        *)

\* what get_value_node hands back: a node (or nullptr), or the process stopped by
\* an assertion or by the read of a node that does not exist
Returned_node(node) == [node |-> node, fault |-> "none"]
Stopped(why) == [node |-> Nil, fault |-> why]

\* idx = (idx >= count) ? (idx % count) : idx;  idx = (sign && idx != 0) ? (count - idx) : idx
WrapIndex(idx, count, sign) ==
    LET Signed(i) == IF sign /\ i # 0 THEN count - i ELSE i
    IN  Signed(IF U64GeSmall(idx, count) THEN U64ModSmall(idx, count) ELSE idx[1])

\* for (j = 0; j < idx; j++) { current_node = current_node->GetNext(); if (!current_node) break; }
RECURSIVE SkipToItem(_, _, _)
SkipToItem(nodes, current_node, idx) ==
    IF idx = 0 \/ current_node = Nil THEN current_node
    ELSE SkipToItem(nodes, nodes[current_node].next, idx - 1)

\* memcmp(path + p, m_begin + from, n) == 0
SameText(path, p, from, n) == \A i \in 0..(n - 1) : path[p + i + 1] = Mem(from + i)

RECURSIVE PathLoop(_, _, _, _), KeyLoop(_, _, _, _)

\* the index step, p being the offset after '[' and current_node the first element
ArrayStep(nodes, path, p, current_node, count) ==
    LET end == Len(path)
        sign == p # end /\ path[p + 1] = "-"
        Closed(q, idx) ==
            IF q # end /\ path[q + 1] = "]"
            THEN PathLoop(nodes, path, q + 1, SkipToItem(nodes, current_node, idx))
            ELSE Returned_node(Nil)
        Indexed(q, r) ==
            IF r.result = 0 THEN Returned_node(Nil)
            ELSE Closed(q + r.result, WrapIndex(r.out, count, sign))
        Digits(q) == Indexed(q, to_u64(path, q))
    IN  IF count = 0 THEN Returned_node(Nil)
        ELSE Digits(IF sign THEN p + 1 ELSE p)

\* while (p < end && !current_node->IsEOF() && current_node->IsKey())
KeyLoop(nodes, path, p, current_node) ==
    LET end == Len(path)
        node_data == nodes[current_node].data
        node_length == nodes[current_node].length
    IN  IF current_node \notin DOMAIN nodes THEN Stopped("fault")
        ELSE IF ~(p < end /\ nodes[current_node].type = "JSON_KEY")
        THEN PathLoop(nodes, path, p, current_node)
        ELSE IF /\ path[p + 1] = QUOTE
                /\ end - p >= node_length
                /\ SameText(path, p, node_data, node_length)
        THEN PathLoop(nodes, path, p + node_length, current_node + 1)
        ELSE IF /\ path[p + 1] # QUOTE
                /\ end - p >= node_length - 2
                /\ SameText(path, p, node_data + 1, node_length - 2)
        THEN PathLoop(nodes, path, p + node_length - 2, current_node + 1)
        ELSE IF nodes[current_node].next = Nil THEN PathLoop(nodes, path, p, Nil)
        ELSE KeyLoop(nodes, path, p, nodes[current_node].next)

\* while (p < end && !current_node->IsEOF() && current_node != nullptr): the null
\* test comes after the call through the pointer
PathLoop(nodes, path, p, current_node) ==
    IF ~(p < Len(path)) THEN Returned_node(current_node)
    ELSE IF current_node = Nil THEN Stopped("null")
    ELSE IF current_node \notin DOMAIN nodes THEN Stopped("fault")
    ELSE IF nodes[current_node].type = "JSON_EOF" THEN Returned_node(current_node)
    ELSE IF path[p + 1] = "[" /\ nodes[current_node].type = "JSON_ARRAY"
    THEN ArrayStep(nodes, path, p + 1, current_node + 1, nodes[current_node].count)
    ELSE IF path[p + 1] = "." /\ nodes[current_node].type = "JSON_OBJECT"
    THEN IF nodes[current_node].count = 0 THEN Returned_node(Nil)
         ELSE KeyLoop(nodes, path, p + 1, current_node + 1)
    ELSE Returned_node(Nil)

\* a resolver that starts at the document root whatever node it is given
get_value_node_fromRoot(nodes, node_begin, path) ==
    IF nodes[node_begin].type \notin {"JSON_ARRAY", "JSON_OBJECT"} THEN Stopped("assert")
    ELSE PathLoop(nodes, path, 0, 0)

\* get_value_node(&nodes[node_begin], path, Len(path))
get_value_node(nodes, node_begin, path) ==
    IF nodes[node_begin].type \notin {"JSON_ARRAY", "JSON_OBJECT"} THEN Stopped("assert")
    ELSE PathLoop(nodes, path, 0, node_begin)

----------------------------------------------------------------------------
(* The documents that are queried and the paths they are queried with.     *)

PathCapacity == 12   \* node buffer capacity of the queried parses

RECURSIVE JoinComma(_)
JoinComma(items) ==
    IF Len(items) = 0 THEN << >>
    ELSE IF Len(items) = 1 THEN items[1]
    ELSE items[1] \o <<",">> \o JoinComma(Tail(items))

ArrayText(items) == <<"[">> \o JoinComma(items) \o <<"]">>
ObjectText(members) == <<"{">> \o JoinComma(members) \o <<"}">>
Member(key, value) == <<QUOTE>> \o key \o <<QUOTE, ":">> \o value

\* every order of the elements of a set, as sequences
RECURSIVE Orders(_)
Orders(set) ==
    IF set = {} THEN {<< >>}
    ELSE UNION {{<<x>> \o rest : rest \in Orders(set \ {x})} : x \in set}

\* key sets with pairwise distinct keys: a key that is a prefix of another, the
\* empty key, three one-letter keys
KeySets == {{<<"x">>, <<"x", "y">>}, {<< >>, <<"k">>}, {<<"x">>, <<"y">>, <<"z">>}}

\* the value bound to a key: a one-digit number that tells the keys apart
KeyValue(key) ==
    IF key = <<"x">> THEN <<"1">>
    ELSE IF key = <<"x", "y">> THEN <<"2">>
    ELSE IF key = <<"y">> THEN <<"3">>
    ELSE IF key = <<"z">> THEN <<"4">>
    ELSE IF key = <<"k">> THEN <<"5">>
    ELSE <<"6">>

\* the objects that bind the keys of a set, in every order
ObjectsOf(keys) ==
    {ObjectText([i \in 1..Len(order) |-> Member(order[i], KeyValue(order[i]))])
        : order \in Orders(keys)}

FlatObjects == UNION {ObjectsOf(keys) : keys \in KeySets}

NestedDocs ==
    {ArrayText(<< >>),
     ObjectText(<< >>),
     ArrayText(<< <<"1">>, <<"2">> >>),
     ArrayText(<< <<"1">>, <<"2">>, <<"3">> >>),
     ArrayText(<< ArrayText(<< <<"1">>, <<"2">> >>), <<"3">> >>),
     ArrayText(<< ObjectText(<< Member(<<"x">>, ArrayText(<< <<"1">> >>)) >>),
                  ArrayText(<< <<"2">>, ArrayText(<< >>) >>) >>),
     ObjectText(<< Member(<<"a">>, ArrayText(<< <<"1">>,
                                              ObjectText(<< Member(<<"b">>, <<"2">>) >>) >>)),
                   Member(<<"x">>, ObjectText(<< Member(<<"y">>, <<"3">>) >>)) >>)}

\* documents cut off after a colon or a comma: their parse fails at the end of input
CutTexts ==
    {SubSeq(t, 1, Len(t) - 2) : t \in ObjectsOf({<<"x">>, <<"x", "y">>})}
    \cup {<<"[", "1", ",">>}

PathTexts == FlatObjects \cup NestedDocs \cup CutTexts

\* index steps: small indices, the largest 64-bit index and its successor, indices
\* written with leading zeros in 20 and 21 digits
IndexTexts ==
    {<<"0">>, <<"1">>, <<"2">>, <<"3">>, <<"5">>, <<"0", "1">>,
     U64MaxText,
     SubSeq(U64MaxText, 1, 19) \o <<"6">>,
     [i \in 1..20 |-> IF i = 20 THEN "1" ELSE "0"],
     [i \in 1..21 |-> IF i = 21 THEN "1" ELSE "0"]}

IndexSteps ==
    {<<"[">> \o t \o <<"]">> : t \in IndexTexts}
    \cup {<<"[", "-">> \o t \o <<"]">> : t \in IndexTexts}

KeyTexts == {<<"x">>, <<"x", "y">>, <<"y">>, <<"z">>, <<"k">>, <<"a">>, <<"b">>, <<"q">>, << >>}

KeySteps ==
    {<<".">> \o k : k \in KeyTexts} \cup {<<".", QUOTE>> \o k \o <<QUOTE>> : k \in KeyTexts}

\* steps that are not well formed
BrokenSteps == {<<"[">>, <<"[", "1">>, <<"[", "-", "]">>, <<"]">>, <<"x">>}

Steps == IndexSteps \cup KeySteps \cup BrokenSteps

\* the steps that longer paths are made of
InnerSteps ==
    {<<"[", "0", "]">>, <<"[", "1", "]">>, <<"[", "-", "1", "]">>, <<"[", "2", "]">>,
     <<".", "x">>, <<".", "y">>, <<".", "a">>, <<".", "b">>, <<".", QUOTE, "x", QUOTE>>,
     <<".", "q">>}

\* the empty path, one step, two steps
Paths == {<< >>} \cup Steps \cup {a \o b : a \in InnerSteps, b \in Steps}

----------------------------------------------------------------------------
(* The parse of a document followed by queries on its nodes.               *)

InitPath == \E text \in PathTexts : SetUp(text, << >>, PathCapacity)

\* the call through a null pointer in the loop test is undefined: builds either stop
\* there or carry the null pointer to the return
Outcomes(found) == IF found.fault = "null" THEN {found, Returned_node(Nil)} ELSE {found}

\* a call of get_value_node on a node of the valid document (one call is followed)
GetValueNode ==
    /\ Running /\ pc = "idle"
    /\ m_errorCode = "VALID_JSON"
    /\ query = NoQuery
    /\ \E node_begin \in 0..(m_nodeCount - 1), path \in Paths :
       \E found \in Outcomes(get_value_node(m_nodeBuffer, node_begin, path)) :
           /\ query' = [fn |-> "get_value_node", node_begin |-> node_begin, path |-> path]
           /\ answer' = found
           /\ halt' = IF found.fault = "none" THEN halt
                      ELSE IF found.fault = "assert" THEN "assert" ELSE "fault"
           /\ pc' = IF found.fault = "none" THEN pc ELSE "halted"
    /\ UNCHANGED << data, past, m_pos, m_errorCode, m_nodeBuffer, m_nodeCount, m_tokenCapacity,
                    m_currentToken, m_currentLine, m_errorLogPos, stack, result, calls,
                    pushFailed, oobWrite, expectFail >>

NextPath ==
    \/ ParseAgain
    \/ ParseLoop
    \/ ParseEof
    \/ ParseFinish
    \/ ArrayEnter
    \/ ArrayLoop
    \/ ArrayAfter
    \/ ObjectEnter
    \/ ObjectKey
    \/ ObjectValue
    \/ ObjectAfter
    \/ GetValueNode

SpecPath == InitPath /\ [][NextPath]_vars

----------------------------------------------------------------------------
(* The layout of a parsed document: a value occupies consecutive nodes,    *)
(* the container first, then its elements (its keys each followed by the   *)
(* key's value) in source order.                                           *)

RECURSIVE SubtreeSize(_, _), Span(_, _, _, _)

\* nodes taken by n consecutive elements (keyed = 0) or key/value pairs (keyed = 1)
\* from node k on
Span(nodes, k, n, keyed) ==
    IF n = 0 \/ k + keyed \notin DOMAIN nodes THEN 0
    ELSE LET Rest(size) == size + Span(nodes, k + size, n - 1, keyed)
         IN  Rest(keyed + SubtreeSize(nodes, k + keyed))

\* nodes taken by the value at node k
SubtreeSize(nodes, k) ==
    IF nodes[k].type = "JSON_ARRAY" THEN 1 + Span(nodes, k + 1, nodes[k].count, 0)
    ELSE IF nodes[k].type = "JSON_OBJECT" THEN 1 + Span(nodes, k + 1, nodes[k].count, 1)
    ELSE 1

\* the i-th element (from 0) of the array at node a; the i-th key of the object at o
Element(nodes, a, i) == a + 1 + Span(nodes, a + 1, i, 0)
KeyNode(nodes, o, i) == o + 1 + Span(nodes, o + 1, i, 1)

----------------------------------------------------------------------------
(* Properties of get_value_node.                                           *)

Asked == query.fn = "get_value_node"

\* the digits of an index step "[" ("-")? digits "]", << >> for any other path
IndexBody(path) ==
    IF Len(path) >= 3 /\ path[1] = "[" /\ path[Len(path)] = "]"
    THEN SubSeq(path, 2, Len(path) - 1) ELSE << >>
IndexNegative(path) == IndexBody(path) # << >> /\ IndexBody(path)[1] = "-"
IndexDigits(path) == IF IndexNegative(path) THEN Tail(IndexBody(path)) ELSE IndexBody(path)
IsIndexStep(path) ==
    /\ IndexDigits(path) # << >>
    /\ \A i \in 1..Len(IndexDigits(path)) : isDigit(IndexDigits(path)[i])

\* a digit run without its leading zeros
RECURSIVE StripZeros(_)
StripZeros(digits) ==
    IF Len(digits) > 1 /\ digits[1] = "0" THEN StripZeros(Tail(digits)) ELSE digits

\* a <= b for digit runs of one length
DecimalLeq(a, b) ==
    \/ a = b
    \/ \E i \in 1..Len(a) : /\ DigitValue(a[i]) < DigitValue(b[i])
                            /\ \A j \in 1..(i - 1) : a[j] = b[j]

\* the number a digit run denotes is at most 2^64 - 1
FitsU64(digits) ==
    \/ Len(StripZeros(digits)) < 20
    \/ Len(StripZeros(digits)) = 20 /\ DecimalLeq(StripZeros(digits), U64MaxText)

\* the number a digit run denotes, modulo a small n
RECURSIVE DecimalMod(_, _, _)
DecimalMod(digits, n, r) ==
    IF digits = << >> THEN r
    ELSE DecimalMod(Tail(digits), n, (r * 10 + DigitValue(digits[1])) % n)

\* the position the claim assigns to an index step on an array of n > 0 elements
WrappedPosition(path, n) ==
    IF IndexNegative(path) THEN (n - DecimalMod(IndexDigits(path), n, 0)) % n
    ELSE DecimalMod(IndexDigits(path), n, 0)

\* C11: an index step [i] or [-i] whose magnitude fits 64 bits, asked of an array
\* with n elements, returns not-found when n = 0 and otherwise the element at
\* position i mod n, respectively (n - (i mod n)) mod n.
C11_IndexWraps ==
    (/\ Asked
     /\ m_nodeBuffer[query.node_begin].type = "JSON_ARRAY"
     /\ IsIndexStep(query.path)
     /\ FitsU64(IndexDigits(query.path)))
        => answer = IF m_nodeBuffer[query.node_begin].count = 0 THEN Returned_node(Nil)
                    ELSE Returned_node(
                             Element(m_nodeBuffer, query.node_begin,
                                     WrappedPosition(query.path,
                                                     m_nodeBuffer[query.node_begin].count)))

\* the text of a node as the parser recorded it (a key or string with its quotes)
NodeText(nodes, k) == [i \in 1..nodes[k].length |-> Mem(nodes[k].data + i - 1)]

\* the keys of the object at node o
Keys(nodes, o) == {KeyNode(nodes, o, i) : i \in 0..(nodes[o].count - 1)}

DistinctKeys(nodes, o) ==
    \A j, k \in Keys(nodes, o) : j # k => NodeText(nodes, j) # NodeText(nodes, k)

\* the key named by a key step .k or ."k", and the paths that are one such step
\* with a key of at least one character
StepKey(path) ==
    IF Len(path) >= 3 /\ path[2] = QUOTE /\ path[Len(path)] = QUOTE
    THEN SubSeq(path, 3, Len(path) - 1) ELSE Tail(path)
IsKeyStep(path) ==
    /\ path # << >> /\ path[1] = "." /\ StepKey(path) # << >>
    /\ \A i \in 1..Len(StepKey(path)) : StepKey(path)[i] \notin {QUOTE, BACKSLASH, ".", "[", "]"}

\* the keys of the object at o whose text is exactly the key named by the step
Bound(nodes, o, path) ==
    {k \in Keys(nodes, o) : NodeText(nodes, k) = <<QUOTE>> \o StepKey(path) \o <<QUOTE>>}

\* C12: on an object with pairwise distinct keys a key step .k or ."k" returns the
\* value of the key whose text is exactly k, wherever that key stands among the
\* others, also when another key is a proper prefix of k or is empty.
C12_KeyOrderIndependent ==
    (/\ Asked
     /\ m_nodeBuffer[query.node_begin].type = "JSON_OBJECT"
     /\ IsKeyStep(query.path)
     /\ DistinctKeys(m_nodeBuffer, query.node_begin))
        => \A k \in Bound(m_nodeBuffer, query.node_begin, query.path) :
               answer = Returned_node(k + 1)

\* C13: a key step .k on a non-empty object none of whose keys is k returns
\* not-found; the call does not stop at the null end of the key chain.
C13_MissingKeyNotFound ==
    (/\ Asked
     /\ m_nodeBuffer[query.node_begin].type = "JSON_OBJECT"
     /\ m_nodeBuffer[query.node_begin].count > 0
     /\ IsKeyStep(query.path)
     /\ Bound(m_nodeBuffer, query.node_begin, query.path) = {})
        => answer = Returned_node(Nil)

\* the part of a path after its first i characters, and whether it is empty or
\* begins a step
Suffix(path, i) == SubSeq(path, i + 1, Len(path))
AtStep(path, i) == i = Len(path) \/ path[i + 1] \in {"[", "."}

\* the container that the first i characters of the path lead to from the root,
\* Nil when they lead to none
Reached(nodes, path, i) ==
    LET Container(found) ==
            IF /\ found.fault = "none" /\ found.node # Nil
               /\ nodes[found.node].type \in {"JSON_ARRAY", "JSON_OBJECT"}
            THEN found.node ELSE Nil
    IN  Container(get_value_node(nodes, 0, SubSeq(path, 1, i)))

----------------------------------------------------------------------------
(* Properties of the links of a parsed document.                           *)

\* JsonNode::GetFirst, GetValue and GetNext of the node at k
GetFirst(nodes, k) ==
    IF nodes[k].type \in {"JSON_ARRAY", "JSON_OBJECT"} /\ nodes[k].count # 0 THEN k + 1 ELSE Nil
GetValue(nodes, k) ==
    IF nodes[k].type = "JSON_KEY" THEN k + 1
    ELSE IF nodes[k].type \in {"INVALID", "SYNTACTIC_ERROR"} THEN Nil ELSE k
GetNext(nodes, k) == nodes[k].next

\* the nodes visited from node k through GetNext, at most fuel of them
RECURSIVE Chain(_, _, _)
Chain(nodes, k, fuel) ==
    IF k = Nil \/ k \notin DOMAIN nodes \/ fuel = 0 THEN << >>
    ELSE <<k>> \o Chain(nodes, GetNext(nodes, k), fuel - 1)

ParsedValid == Returned /\ m_errorCode = "VALID_JSON"
NodesOfType(type) == {k \in 0..(m_nodeCount - 1) : m_nodeBuffer[k].type = type}

\* C15: after a parse that ended VALID_JSON, the GetNext chain from the node after
\* an array with n > 0 elements is exactly its n elements in order, each link
\* leading over the whole subtree of the element it leaves and the last element's
\* link being none; GetFirst of an array with no element is none.
C15_ArrayChain ==
    ParsedValid =>
        \A a \in NodesOfType("JSON_ARRAY") :
            /\ m_nodeBuffer[a].count = 0 => GetFirst(m_nodeBuffer, a) = Nil
            /\ m_nodeBuffer[a].count > 0 =>
                   /\ GetFirst(m_nodeBuffer, a) = a + 1
                   /\ Chain(m_nodeBuffer, a + 1, m_nodeCount)
                          = [i \in 1..m_nodeBuffer[a].count |-> Element(m_nodeBuffer, a, i - 1)]
                   /\ \A i \in 1..m_nodeBuffer[a].count :
                          GetNext(m_nodeBuffer, Element(m_nodeBuffer, a, i - 1))
                              = IF i = m_nodeBuffer[a].count THEN Nil
                                ELSE Element(m_nodeBuffer, a, i - 1)
                                         + SubtreeSize(m_nodeBuffer, Element(m_nodeBuffer, a, i - 1))

\* a valid parse of an array whose first element is a container with elements of
\* its own, followed by a second element
C15_Witness ==
    /\ ParsedValid
    /\ \E a \in NodesOfType("JSON_ARRAY") :
           /\ m_nodeBuffer[a].count >= 2
           /\ SubtreeSize(m_nodeBuffer, a + 1) >= 2
           /\ GetNext(m_nodeBuffer, a + 1) = a + 1 + SubtreeSize(m_nodeBuffer, a + 1)

\* C16: after a parse that ended VALID_JSON, the node after an object with n > 0
\* members is its first key, the GetNext chain from it is exactly the n keys in
\* order, the value of each key is the node after the key, and the GetNext chain
\* from the first value is exactly the n values in order; the two chains share no
\* node.
C16_ObjectChains ==
    ParsedValid =>
        \A o \in NodesOfType("JSON_OBJECT") :
            m_nodeBuffer[o].count > 0 =>
                /\ m_nodeBuffer[o + 1].type = "JSON_KEY"
                /\ Chain(m_nodeBuffer, o + 1, m_nodeCount)
                       = [i \in 1..m_nodeBuffer[o].count |-> KeyNode(m_nodeBuffer, o, i - 1)]
                /\ \A k \in Keys(m_nodeBuffer, o) :
                       /\ m_nodeBuffer[k].type = "JSON_KEY"
                       /\ GetValue(m_nodeBuffer, k) = k + 1
                       /\ m_nodeBuffer[k + 1].type # "JSON_KEY"
                /\ Chain(m_nodeBuffer, o + 2, m_nodeCount)
                       = [i \in 1..m_nodeBuffer[o].count |-> KeyNode(m_nodeBuffer, o, i - 1) + 1]

----------------------------------------------------------------------------
(* The conversion functions of util, applied to a text in memory.  The     *)
(* text is data, `past` is what lies behind it.                            *)

MaxNumLen == 3   \* every text over NumChars up to this length is converted

NumChars == {"0", "1", "9", "-", "x"}

Zeros(n) == [i \in 1..n |-> "0"]
\* digit runs at and around the limits of 64 bits, some padded with zeros
LimitTexts ==
    {U64MaxText, SubSeq(U64MaxText, 1, 19) \o <<"6">>, SubSeq(U64MaxText, 1, 19) \o <<"4">>,
     <<"0">> \o U64MaxText, <<"0">> \o SubSeq(U64MaxText, 1, 19) \o <<"6">>,
     Zeros(19) \o <<"1">>, Zeros(20) \o <<"1">>, Zeros(21) \o <<"1">>, <<"1">> \o Zeros(20),
     [i \in 1..20 |-> "9"], SubSeq(U64MaxText, 1, 19),
     S64MaxText, SubSeq(S64MaxText, 1, 18) \o <<"8">>, <<"0">> \o S64MaxText,
     Zeros(18) \o <<"1">>, Zeros(19) \o <<"7">>,
     S64MinText, SubSeq(S64MinText, 1, 19) \o <<"9">>, <<"-">> \o S64MaxText,
     <<"-", "0">> \o S64MaxText, <<"-">> \o Zeros(18) \o <<"1">>, <<"-">> \o Zeros(19) \o <<"1">>,
     <<"-">> \o Zeros(20) \o <<"1">>}

NumberTexts ==
    UNION {[1..n -> NumChars] : n \in 0..MaxNumLen}
    \cup LimitTexts \cup {t \o <<"]">> : t \in LimitTexts}

\* memory behind the text of a number
NumberPast == {<< >>, <<"-", "1">>, <<"7">>}

\* eight hex digits, in both cases of the letters
Hex8 ==
    {<<"0", "0", "0", "0", "0", "0", "0", "0">>, <<"0", "0", "0", "0", "0", "0", "0", "1">>,
     <<"3", "f", "8", "0", "0", "0", "0", "0">>, <<"8", "0", "0", "0", "0", "0", "0", "0">>,
     <<"F", "f", "F", "f", "F", "f", "F", "f">>, <<"9", "a", "b", "c", "d", "e", "f", "A">>,
     <<"7", "F", "C", "0", "0", "0", "0", "0">>, <<"1", "2", "3", "4", "5", "6", "7", "8">>,
     <<"B", "C", "D", "E", "0", "0", "1", "0">>}

\* the text of a float with 8 and of a double with 16 hex digits
HexTexts ==
    {<<"0", "x">> \o low : low \in Hex8}
    \cup {<<"0", "x">> \o high \o low : high \in Hex8, low \in Hex8}

\* contents of the four bytes that lie behind a u32 local on the stack
StackWords == {<<0, 0>>, <<18, 0>>, <<32767, 4096>>}

\* the text of a \u escape
Escape(hex) == <<BACKSLASH, "u">> \o hex

HighSurrogates == {<<"D", "8", "0", "0">>, <<"D", "8", "3", "D">>, <<"d", "b", "f", "f">>,
                   <<"D", "9", "a", "B">>}
LowSurrogates == {<<"D", "C", "0", "0">>, <<"D", "E", "0", "0">>, <<"d", "f", "f", "f">>,
                  <<"D", "C", "0", "1">>}
PlainEscapes == {<<"0", "0", "4", "1">>, <<"0", "0", "e", "9">>, <<"2", "0", "A", "C">>,
                 <<"F", "F", "F", "F">>, <<"0", "0", "0", "0">>}

\* contents of JSON strings: surrogate pairs, other escapes, digits, and texts
\* that end inside an escape
StringTexts ==
    {Escape(high) \o Escape(low) : high \in HighSurrogates, low \in LowSurrogates}
    \cup {Escape(hex) : hex \in PlainEscapes \cup HighSurrogates \cup LowSurrogates}
    \cup {Escape(high) \o Escape(hex) : high \in HighSurrogates, hex \in PlainEscapes}
    \cup {<<"1">> \o Escape(high) \o Escape(low) \o <<BACKSLASH, "n", "2">> :
              high \in HighSurrogates, low \in LowSurrogates}
    \cup {<<BACKSLASH, c>> : c \in {BACKSLASH, "/", QUOTE, "0", "a", "b", "t", "v", "f", "r",
                                     "n", "x"}}
    \cup {<<BACKSLASH>>, <<BACKSLASH, "u", "0", "0">>, <<"1", "2">>}

InitUtil ==
    \E text \in NumberTexts \cup HexTexts \cup StringTexts, behind \in NumberPast :
        SetUp(text, behind, 0)

\* the part of the parser that a conversion does not touch
ParserUnchanged ==
    UNCHANGED <<data, past, m_pos, m_errorCode, m_nodeBuffer, m_nodeCount, m_tokenCapacity,
                m_currentToken, m_currentLine, m_errorLogPos, stack, result, calls,
                pushFailed, oobWrite, expectFail>>

\* util::to_u64(m_begin, m_end, &out)
ToU64 ==
    /\ pc = "idle" /\ query = NoQuery /\ data \in NumberTexts
    /\ query' = [fn |-> "to_u64"]
    /\ answer' = to_u64(data, 0)
    /\ UNCHANGED <<pc, halt>>
    /\ ParserUnchanged

\* a signed overflow is undefined: builds wrap around or trap
Overflowed(found) == IF found.overflow THEN {found, [found EXCEPT !.result = Nil]} ELSE {found}

\* util::to_s64(m_begin, m_end, &out); the byte at m_end is read when nothing
\* stops the function before
ToS64 ==
    /\ pc = "idle" /\ query = NoQuery /\ data \in NumberTexts
    /\ \E found \in Overflowed(to_s64(data \o past, End)) :
           /\ query' = [fn |-> "to_s64"]
           /\ answer' = found
           /\ halt' = IF found.result = Nil THEN "fault" ELSE halt
           /\ pc' = IF found.result = Nil THEN "halted" ELSE pc
    /\ ParserUnchanged

\* util::hex_to_float(m_begin)
HexToFloat ==
    /\ pc = "idle" /\ query = NoQuery /\ data \in HexTexts
    /\ query' = [fn |-> "hex_to_float"]
    /\ answer' = [bits |-> hex_to_float(data)]
    /\ UNCHANGED <<pc, halt>>
    /\ ParserUnchanged

\* util::hex_to_double(m_begin) on a text with 16 digits
HexToDouble ==
    /\ pc = "idle" /\ query = NoQuery /\ data \in HexTexts /\ Len(data) = 18
    /\ \E behind \in StackWords :
           /\ query' = [fn |-> "hex_to_double"]
           /\ answer' = [bits |-> hex_to_double(data, behind)]
    /\ UNCHANGED <<pc, halt>>
    /\ ParserUnchanged

\* a call of a function of strings: what it returns, or the JSON_ASSERT that
\* stops the program
StringCall(fn, found) ==
    /\ pc = "idle" /\ query = NoQuery /\ data \in StringTexts
    /\ query' = [fn |-> fn]
    /\ answer' = found
    /\ halt' = IF found.fault = "none" THEN halt ELSE "assert"
    /\ pc' = IF found.fault = "none" THEN pc ELSE "halted"
    /\ ParserUnchanged

\* util::json_string_character_to_codepoint(m_begin, &idx) with idx = 0
JsonStringCharacterToCodepoint ==
    \E found \in {json_string_character_to_codepoint(data \o past)} :
        StringCall("json_string_character_to_codepoint", found)

\* util::json_string_to_utf8(dest, m_begin, m_end - m_begin)
JsonStringToUtf8 ==
    \E found \in {json_string_to_utf8(data, 0, << >>)} :
        StringCall("json_string_to_utf8", found)

NextUtil ==
    \/ ToU64 \/ ToS64 \/ HexToFloat \/ HexToDouble
    \/ JsonStringCharacterToCodepoint \/ JsonStringToUtf8

SpecUtil == InitUtil /\ [][NextUtil]_vars

\* the longest run of decimal digits at the start of a text
RECURSIVE DigitRun(_)
DigitRun(text) ==
    IF text # << >> /\ isDigit(text[1]) THEN <<text[1]>> \o DigitRun(Tail(text)) ELSE << >>

\* n * m + carry for a number n of any size, as limbs without leading zero limbs
RECURSIVE BigMulAdd(_, _, _)
BigMulAdd(n, m, carry) ==
    IF n = << >> THEN (IF carry = 0 THEN << >> ELSE <<carry>>)
    ELSE LET Low(v) == <<v % Limb>> \o BigMulAdd(Tail(n), m, v \div Limb)
         IN  Low(n[1] * m + carry)

\* the number a digit run denotes
RECURSIVE DecimalValue(_, _)
DecimalValue(digits, n) ==
    IF digits = << >> THEN n
    ELSE DecimalValue(Tail(digits), BigMulAdd(n, 10, DigitValue(digits[1])))

\* a number below 2^64 as the four limbs of a 64-bit word
AsU64(n) == [i \in 1..4 |-> IF i <= Len(n) THEN n[i] ELSE 0]

\* C17: to_u64 returns 0 exactly when the digit run at s is empty or denotes a
\* number above 2^64 - 1 (a run padded with zeros counts by its value); otherwise
\* it returns the length of the run and stores the number.
C17_ToU64 ==
    query.fn = "to_u64" =>
        IF DigitRun(data) = << >> \/ Len(DecimalValue(DigitRun(data), << >>)) > 4
        THEN answer.result = 0
        ELSE /\ answer.result = Len(DigitRun(data))
             /\ answer.out = AsU64(DecimalValue(DigitRun(data), << >>))

\* the digit run of a text after its optional '-'
Negative(text) == text # << >> /\ text[1] = "-"
SignedRun(text) == DigitRun(IF Negative(text) THEN Tail(text) ELSE text)

\* a number of any size lies in [0, 2^63 - 1], or is at most 2^63
FitsS64(n, negative) ==
    \/ Len(n) < 4
    \/ Len(n) = 4 /\ n[4] < Limb \div 2
    \/ negative /\ n = S64Min

\* a + b = 0 modulo 2^64
U64Opposite(a, b) ==
    LET Carry(i, c) == (a[i] + b[i] + c) \div Limb
        Low(i, c) == (a[i] + b[i] + c) % Limb
    IN  /\ Low(1, 0) = 0
        /\ Low(2, Carry(1, 0)) = 0
        /\ Low(3, Carry(2, Carry(1, 0))) = 0
        /\ Low(4, Carry(3, Carry(2, Carry(1, 0)))) = 0

\* C18: to_s64 returns 0 exactly when no digit follows the optional '-' or the
\* number lies outside [-2^63, 2^63 - 1]; otherwise it returns the number of
\* characters taken, the sign included, and stores the number.
C18_ToS64 ==
    query.fn = "to_s64" =>
        IF \/ SignedRun(data) = << >>
           \/ ~FitsS64(DecimalValue(SignedRun(data), << >>), Negative(data))
        THEN answer.result = 0
        ELSE /\ answer.result = Len(SignedRun(data)) + (IF Negative(data) THEN 1 ELSE 0)
             /\ IF Negative(data)
                THEN U64Opposite(answer.out, AsU64(DecimalValue(SignedRun(data), << >>)))
                ELSE answer.out = AsU64(DecimalValue(SignedRun(data), << >>))

\* the number that the four hex digits from position i of a text denote
Hex4(text, i) ==
    LET Value(ch) == CHOOSE v \in 0..15 :
            \/ v < 10 /\ ch = DecimalDigits[v + 1]
            \/ v >= 10 /\ ch \in {<<"a", "b", "c", "d", "e", "f">>[v - 9],
                                   <<"A", "B", "C", "D", "E", "F">>[v - 9]}
    IN  ((Value(text[i]) * 16 + Value(text[i + 1])) * 16 + Value(text[i + 2])) * 16
            + Value(text[i + 3])

\* C19: hex_to_float returns the 32 bits that the 8 hex digits after the prefix
\* denote, and hex_to_double the 64 bits that the 16 hex digits after the prefix
\* denote.
C19_HexExact ==
    /\ query.fn = "hex_to_float" => answer.bits = <<Hex4(data, 7), Hex4(data, 3)>>
    /\ query.fn = "hex_to_double"
           => answer.bits = <<Hex4(data, 15), Hex4(data, 11), Hex4(data, 7), Hex4(data, 3)>>

\* the text is one surrogate pair \uHHHH\uLLLL with H in D800..DBFF and L in
\* DC00..DFFF
IsSurrogatePair(text) ==
    /\ Len(text) = 12
    /\ SubSeq(text, 1, 2) = <<BACKSLASH, "u">> /\ SubSeq(text, 7, 8) = <<BACKSLASH, "u">>
    /\ \A i \in (3..6) \cup (9..12) : isHexDigit(text[i])
    /\ Hex4(text, 3) \in 55296..56319
    /\ Hex4(text, 9) \in 56320..57343

\* 0x10000 + ((H - 0xD800) << 10) + (L - 0xDC00) and its four bytes in UTF-8
PairCodepoint(text) == 65536 + (Hex4(text, 3) - 55296) * 1024 + (Hex4(text, 9) - 56320)
FourBytes(c) ==
    <<240 + (c \div 262144), 128 + ((c \div 4096) % 64), 128 + ((c \div 64) % 64),
      128 + (c % 64)>>

\* C20: for a surrogate pair \uHHHH\uLLLL json_string_to_utf8 writes the UTF-8
\* bytes of 0x10000 + ((H - 0xD800) << 10) + (L - 0xDC00), the codepoint that
\* json_string_character_to_codepoint returns for the same text.
C20_SurrogatePair ==
    IsSurrogatePair(data) =>
        /\ query.fn = "json_string_character_to_codepoint"
               => answer.fault = "none" /\ answer.result = PairCodepoint(data)
        /\ query.fn = "json_string_to_utf8"
               => answer.fault = "none" /\ answer.bytes = FourBytes(PairCodepoint(data))

----------------------------------------------------------------------------
(* The accessors of JsonNode, called on the nodes of a parsed document.    *)
(* What an accessor stores through dest is a record: tag "unchanged" when  *)
(* it stores nothing.                                                      *)

Unchanged == [tag |-> "unchanged"]
Failed == [result |-> 0, dest |-> Unchanged, fault |-> "none"]
AssertedAccess == [result |-> Nil, dest |-> Unchanged, fault |-> "assert"]

\* the branches of util::json_string_to_utf8 taken with dest = nullptr: the loop
\* from offset p on, len being the count so far
RECURSIVE json_string_to_utf8_measure(_, _, _)
json_string_to_utf8_measure(s, p, len) ==
    LET end == Len(s)
        Digits(q) == IF q + 4 > end THEN Nil ELSE Hex4At(s, q)
        Counted(q, codepoint) ==
            IF codepoint >= 1114112 THEN Asserted
            ELSE json_string_to_utf8_measure(
                     s, q, len + 1 + (IF codepoint >= 128 THEN 1 ELSE 0)
                               + (IF codepoint >= 2048 THEN 1 ELSE 0)
                               + (IF codepoint >= 65536 THEN 1 ELSE 0))
        Pair(q, codepoint, extra) ==
            IF extra = Nil THEN Asserted
            ELSE Counted(q + 6, (codepoint - 55296) * 1024 + (codepoint - 56320) + 65536)
        Escaped(q, codepoint) ==
            IF codepoint = Nil THEN Asserted
            ELSE IF codepoint >= 55296 /\ codepoint <= 56319
                 THEN Pair(q, codepoint, Digits(q + 2))
            ELSE Counted(q, codepoint)
    IN  IF ~(p < end) THEN [bytes |-> << >>, result |-> len, fault |-> "none"]
        ELSE IF s[p + 1] # BACKSLASH THEN json_string_to_utf8_measure(s, p + 1, len + 1)
        ELSE IF p + 1 < end /\ s[p + 2] = "u" THEN Escaped(p + 6, Digits(p + 2))
        ELSE IF p + 1 < end /\ s[p + 2] \in {BACKSLASH, "/", QUOTE, "0", "a", "b", "t", "v",
                                             "f", "r", "n"}
             THEN json_string_to_utf8_measure(s, p + 2, len + 1)
        ELSE Asserted

\* the text of a string or key node between its quotation marks
Interior(nodes, k) == SubSeq(NodeText(nodes, k), 2, nodes[k].length - 1)

\* endptr of strtod(as_sv.data, &endptr) for a text that begins a number: the
\* longest  -? digits (. digits)? ([eE] [+-]? digits)?  in memory from offset p on
StrtodEnd(p) ==
    LET Exponent(q) ==
            IF Mem(q) \in {"e", "E"}
            THEN LET Signed(r) == IF isDigit(Mem(r)) THEN skipDigits(r) ELSE q
                 IN  Signed(IF Mem(q + 1) \in {"-", "+"} THEN q + 2 ELSE q + 1)
            ELSE q
        Fraction(q) == IF Mem(q) = "." THEN Exponent(skipDigits(q + 1)) ELSE Exponent(q)
    IN  Fraction(skipDigits(IF Mem(p) = "-" THEN p + 1 ELSE p))

\* JsonNode::GetAsBool(dest) for dest # nullptr
GetAsBool(nodes, k) ==
    IF nodes[k].type = "JSON_TRUE"
    THEN {[result |-> 1, dest |-> [tag |-> "bool", value |-> TRUE], fault |-> "none"]}
    ELSE IF nodes[k].type = "JSON_FALSE"
    THEN {[result |-> 1, dest |-> [tag |-> "bool", value |-> FALSE], fault |-> "none"]}
    ELSE {Failed}

\* JsonNode::GetAsDouble(dest) for dest # nullptr; the value strtod computes is
\* written as the text it converts, static_cast<f64> of a float as tag "widened"
\* around it
GetAsDouble(nodes, k) ==
    IF nodes[k].type = "JSON_NUMBER"
    THEN IF StrtodEnd(nodes[k].data) = nodes[k].data + nodes[k].length
         THEN {[result |-> 1, dest |-> [tag |-> "strtod", text |-> NodeText(nodes, k)],
                fault |-> "none"]}
         ELSE {AssertedAccess}
    ELSE IF nodes[k].type = "JSON_DOUBLE_HEX"
    THEN {[result |-> 1,
           dest |-> [tag |-> "bits", bits |-> hex_to_double(NodeText(nodes, k), behind)],
           fault |-> "none"] : behind \in StackWords}
    ELSE IF nodes[k].type = "JSON_FLOAT_HEX"
    THEN {[result |-> 1,
           dest |-> [tag |-> "widened",
                     from |-> [tag |-> "bits", bits |-> hex_to_float(NodeText(nodes, k))]],
           fault |-> "none"]}
    ELSE {Failed}

\* JsonNode::GetAsFloat(dest) for dest # nullptr; static_cast<f32> of the double
\* is written as tag "narrowed" around it
GetAsFloat(nodes, k) ==
    IF nodes[k].type = "JSON_FLOAT_HEX"
    THEN {[result |-> 1, dest |-> [tag |-> "bits", bits |-> hex_to_float(NodeText(nodes, k))],
           fault |-> "none"]}
    ELSE IF nodes[k].type \in {"JSON_NUMBER", "JSON_DOUBLE_HEX"}
    THEN {IF temp.fault = "none"
          THEN [temp EXCEPT !.dest = [tag |-> "narrowed", from |-> temp.dest]]
          ELSE temp : temp \in GetAsDouble(nodes, k)}
    ELSE {Failed}

\* GetAsU64 without the test of the node's type for the nodes whose text begins
\* like a number
GetAsU64_anyDigits(nodes, k) ==
    IF nodes[k].type \in {"JSON_NUMBER", "JSON_FLOAT_HEX", "JSON_DOUBLE_HEX"}
    THEN LET Read(r) == [result |-> IF r.result > 0 THEN 1 ELSE 0,
                         dest |-> [tag |-> "u64", value |-> r.out], fault |-> "none"]
         IN  {Read(to_u64(SubSeq(data, 1, nodes[k].data + nodes[k].length), nodes[k].data))}
    ELSE {Failed}

\* JsonNode::GetAsU64(dest) for dest # nullptr
GetAsU64(nodes, k) ==
    IF nodes[k].type = "JSON_NUMBER"
    THEN LET Read(r) == [result |-> IF r.result > 0 THEN 1 ELSE 0,
                         dest |-> [tag |-> "u64", value |-> r.out], fault |-> "none"]
         IN  {Read(to_u64(SubSeq(data, 1, nodes[k].data + nodes[k].length), nodes[k].data))}
    ELSE {Failed}

\* JsonNode::GetAsS64(dest) for dest # nullptr
GetAsS64(nodes, k) ==
    IF nodes[k].type = "JSON_NUMBER"
    THEN LET Read(r) == IF r.result = Nil THEN [result |-> Nil, dest |-> Unchanged,
                                                fault |-> "overflow"]
                        ELSE [result |-> IF r.result > 0 THEN 1 ELSE 0,
                              dest |-> [tag |-> "s64", value |-> r.out], fault |-> "none"]
         IN  {Read(r) : r \in Overflowed(to_s64(NodeText(nodes, k), nodes[k].length))}
    ELSE {Failed}

\* JsonNode::GetAsString(dest) for dest # nullptr
GetAsString(nodes, k) ==
    IF nodes[k].type \in {"JSON_STRING", "JSON_KEY"}
    THEN LET Written(r) == IF r.fault # "none" THEN AssertedAccess
                           ELSE [result |-> r.result,
                                 dest |-> [tag |-> "bytes", bytes |-> r.bytes], fault |-> "none"]
         IN  {Written(json_string_to_utf8(Interior(nodes, k), 0, << >>))}
    ELSE {Failed}

\* the accessors by name, for dest # nullptr
Accessor(fn, nodes, k) ==
    CASE fn = "GetAsBool" -> GetAsBool(nodes, k)
      [] fn = "GetAsFloat" -> GetAsFloat(nodes, k)
      [] fn = "GetAsDouble" -> GetAsDouble(nodes, k)
      [] fn = "GetAsU64" -> GetAsU64(nodes, k)
      [] fn = "GetAsS64" -> GetAsS64(nodes, k)
      [] fn = "GetAsString" -> GetAsString(nodes, k)

----------------------------------------------------------------------------
(* The parse of a document with one value, followed by one call of an      *)
(* accessor on one of its nodes.                                           *)

AccessCapacity == 6

Quoted(text) == <<QUOTE>> \o text \o <<QUOTE>>

\* numbers: integers, the limits of u64 and s64 and their neighbours, and
\* texts with fractions and exponents
AccessNumbers ==
    {<<"1">>, <<"1", "2">>, <<"0">>, <<"-", "5">>, <<"-", "0">>, <<"1", ".", "5">>,
     <<"1", "e", "5">>, <<"1", "E", "+", "5">>, <<"-", "1", ".", "5", "e", "-", "2">>,
     <<"1", ".", "2", ".", "3">>, <<"1", "2", ".", "0">>,
     U64MaxText, SubSeq(U64MaxText, 1, 19) \o <<"6">>, <<"1">> \o Zeros(20),
     S64MaxText, SubSeq(S64MaxText, 1, 18) \o <<"8">>, S64MinText,
     SubSeq(S64MinText, 1, 19) \o <<"9">>}

AccessHex ==
    {<<"0", "x">> \o low : low \in Hex8}
    \cup {<<"0", "x">> \o high \o low :
              high \in {<<"3", "f", "8", "0", "0", "0", "0", "0">>,
                        <<"F", "f", "F", "f", "F", "f", "F", "f">>},
              low \in {<<"0", "0", "0", "0", "0", "0", "0", "0">>,
                       <<"9", "a", "b", "c", "d", "e", "f", "A">>}}

AccessValues ==
    {Quoted(t) : t \in StringTexts \cup {<< >>, <<"a", "/", "b">>}}
    \cup AccessNumbers \cup AccessHex
    \cup {<<"t", "r", "u", "e">>, <<"f", "a", "l", "s", "e">>, <<"n", "u", "l", "l">>,
          <<"[", "]">>, <<"{", "}">>}

AccessTexts ==
    {<<"[">> \o v \o <<"]">> : v \in AccessValues}
    \cup {<<"{">> \o Quoted(<<"k">>) \o <<":">> \o v \o <<"}">> : v \in AccessValues}

InitAccess == \E text \in AccessTexts : SetUp(text, << >>, AccessCapacity)

\* what a call that returned or stopped leaves behind
Called(request, found) ==
    /\ query' = request
    /\ answer' = found
    /\ halt' = IF found.fault = "none" THEN halt
               ELSE IF found.fault = "assert" THEN "assert" ELSE "fault"
    /\ pc' = IF found.fault = "none" THEN pc ELSE "halted"
    /\ ParserUnchanged

\* node->fn(dest) on a node of the buffer after Parse has returned; every
\* accessor begins with JSON_ASSERT(dest != nullptr)
Access(fn) ==
    /\ Running /\ pc = "idle" /\ calls >= 1
    /\ query = NoQuery
    /\ \E k \in 0..(m_nodeCount - 1), dest \in {"null", "given"} :
           /\ k < m_tokenCapacity
           /\ \E found \in IF dest = "null" THEN {AssertedAccess}
                           ELSE Accessor(fn, m_nodeBuffer, k) :
                  Called([fn |-> fn, node |-> k, dest |-> dest], found)

\* util::json_string_to_utf8(dest, sv.data + 1, sv.length - 2) on the string
\* view of a string or key node, with dest = nullptr (measure) or a buffer (fill)
JsonStringToUtf8OfNode ==
    /\ Running /\ pc = "idle" /\ calls >= 1
    /\ query = NoQuery
    /\ \E k \in 0..(m_nodeCount - 1), dest \in {"null", "given"} :
           /\ k < m_tokenCapacity
           /\ m_nodeBuffer[k].type \in {"JSON_STRING", "JSON_KEY"}
           /\ \E found \in {IF dest = "null"
                            THEN json_string_to_utf8_measure(Interior(m_nodeBuffer, k), 0, 0)
                            ELSE json_string_to_utf8(Interior(m_nodeBuffer, k), 0, << >>)} :
                  Called([fn |-> "json_string_to_utf8", node |-> k, dest |-> dest], found)

NextAccess ==
    \/ ParseAgain
    \/ ParseLoop
    \/ ParseEof
    \/ ParseFinish
    \/ ArrayEnter
    \/ ArrayLoop
    \/ ArrayAfter
    \/ ObjectEnter
    \/ ObjectKey
    \/ ObjectValue
    \/ ObjectAfter
    \/ Access("GetAsBool")
    \/ Access("GetAsFloat")
    \/ Access("GetAsDouble")
    \/ Access("GetAsU64")
    \/ Access("GetAsS64")
    \/ Access("GetAsString")
    \/ JsonStringToUtf8OfNode

SpecAccess == InitAccess /\ [][NextAccess]_vars

\* a call of a library function has been made on node k and has this name
AccessedBy(fn) == query.fn = fn

\* C21: for the interior of every string or key node (a text the scanner
\* accepted), json_string_to_utf8 with a null dest returns, returns the number of
\* bytes that the call with a dest writes and returns, and that number is at most
\* the length of the interior
C21_MeasureAgreesWithFill ==
    (AccessedBy("json_string_to_utf8") /\ query.dest = "null")
    => LET fill == json_string_to_utf8(Interior(m_nodeBuffer, query.node), 0, << >>)
       IN  /\ answer.fault = "none"
           /\ fill.fault = "none"
           /\ answer.result = fill.result
           /\ fill.result = Len(fill.bytes)
           /\ answer.result <= Len(Interior(m_nodeBuffer, query.node))

\* where the fill call returns, the measure call returns the same count
C21_AgreesWhereFillReturns ==
    (AccessedBy("json_string_to_utf8") /\ query.dest = "null")
    => LET fill == json_string_to_utf8(Interior(m_nodeBuffer, query.node), 0, << >>)
       IN  /\ (answer.fault = "none") = (fill.fault = "none")
           /\ answer.fault = "none"
              => /\ answer.result = fill.result
                 /\ answer.result <= Len(Interior(m_nodeBuffer, query.node))

\* C22: GetAsString with a null dest on a string or key node does not stop the
\* program and returns the number of bytes the conversion would write
C22_NullDestMeasures ==
    (AccessedBy("GetAsString") /\ query.dest = "null"
     /\ m_nodeBuffer[query.node].type \in {"JSON_STRING", "JSON_KEY"})
    => /\ answer.fault = "none"
       /\ halt = "none"
       /\ answer.result
          = json_string_to_utf8_measure(Interior(m_nodeBuffer, query.node), 0, 0).result

\* the kinds of node each accessor converts
Compatible(fn) ==
    CASE fn = "GetAsBool" -> {"JSON_TRUE", "JSON_FALSE"}
      [] fn \in {"GetAsFloat", "GetAsDouble"}
          -> {"JSON_NUMBER", "JSON_FLOAT_HEX", "JSON_DOUBLE_HEX"}
      [] fn \in {"GetAsU64", "GetAsS64"} -> {"JSON_NUMBER"}
      [] fn = "GetAsString" -> {"JSON_STRING", "JSON_KEY"}

AccessorNames ==
    {"GetAsBool", "GetAsFloat", "GetAsDouble", "GetAsU64", "GetAsS64", "GetAsString"}

\* an accessor was called with a dest on a node of a kind it does not convert
IncompatibleCall ==
    /\ query.fn \in AccessorNames
    /\ query.dest = "given"
    /\ m_nodeBuffer[query.node].type \notin Compatible(query.fn)

IntegerCall ==
    /\ query.fn \in {"GetAsU64", "GetAsS64"}
    /\ query.dest = "given"
    /\ m_nodeBuffer[query.node].type = "JSON_NUMBER"

\* C30: GetAsU64 and GetAsS64 return 1 only when the whole text of the number
\* node is a decimal integer (for GetAsS64 after an optional '-') in the range of
\* the type, and then store that integer; on a text with a fraction or an
\* exponent, and GetAsU64 on a text with '-', they return 0
C30_WholeIntegerOnly ==
    IntegerCall
    => LET text == NodeText(m_nodeBuffer, query.node)
           unsigned == query.fn = "GetAsU64"
           run == IF unsigned THEN DigitRun(text) ELSE SignedRun(text)
           whole == /\ run # << >>
                    /\ Len(run) = Len(text) - (IF ~unsigned /\ Negative(text) THEN 1 ELSE 0)
           Value(digits) == DecimalValue(digits, << >>)
           InRange(n) == IF unsigned THEN Len(n) <= 4 ELSE FitsS64(n, Negative(text))
           Stored(n) == IF ~unsigned /\ Negative(text)
                        THEN U64Opposite(answer.dest.value, AsU64(n))
                        ELSE answer.dest.value = AsU64(n)
       IN  /\ answer.fault = "none"
           /\ answer.result \in {0, 1}
           /\ answer.result = 1 => /\ whole
                                   /\ InRange(Value(run))
                                   /\ Stored(Value(run))
           /\ ~whole => answer.result = 0

----------------------------------------------------------------------------
(* The scanner on single tokens: texts that begin with a string, a number  *)
(* or a float in hexadecimal, alone or as the value of a container.        *)

MaxBody == 3          \* characters after the opening quotation mark
MaxNumber == 5        \* characters of a number text
MaxRun == 18          \* hex digits of the short runs
ScanCapacity == 4

\* the texts of at most n characters over a set of characters
TextsOver(chars, n) == UNION {[1..k -> chars] : k \in 0..n}

StringChars == {"a", "/", BACKSLASH, QUOTE, "u", "1", "\n", "n", "x"}

\* an opening quotation mark and what follows it: every short text, and escapes
\* with zero to five hex digits, closed and left open
StringScans ==
    {<<QUOTE>> \o body : body \in TextsOver(StringChars, MaxBody)}
    \cup {<<QUOTE>> \o Escape(hex) \o close :
              hex \in PlainEscapes \cup HighSurrogates
                      \cup {<< >>, <<"1">>, <<"1", "2">>, <<"1", "2", "3">>,
                            <<"1", "2", "G", "4">>, <<"1", "2", "3", "4", "5">>},
              close \in {<< >>, <<QUOTE>>, <<QUOTE, ",">>}}
    \cup {<<QUOTE, "a", "b", "/", "c", "d", QUOTE>>, <<QUOTE, "a", "b", "c", "d", QUOTE>>,
          <<QUOTE, "a", BACKSLASH, "/", "c", BACKSLASH, "n", QUOTE>>}

NumberChars == {"0", "1", "-", ".", "e", "+"}

NumberScans ==
    {t \in TextsOver(NumberChars, MaxNumber) : t # << >> /\ t[1] \in {"0", "1", "-"}}
    \cup {<<"1", "E", "5">>, <<"1", "E", "-", "5">>, <<"1", "E">>, <<"9", ".", "5", "E", "+", "0">>,
          <<"1", ".", "2", ".", "3", ",">>, <<"1", ".", "2", "e", "3", ".", "4">>,
          <<"1", "2", ",">>, <<"1", ".", "]">>}

\* a run of n hex digits
HexRun(n) == [i \in 1..n |-> IF i % 3 = 0 THEN "a" ELSE IF i % 3 = 1 THEN "1" ELSE "F"]

\* the lengths at which a count kept in 8 bits shows 8 or 16 again, and their
\* neighbours
LongRuns == {255, 256, 257, 264, 272}

HexScans ==
    {<<first, "x">> \o HexRun(n) \o behind :
         first \in {"0", "7", "-"}, n \in (0..MaxRun) \cup LongRuns,
         behind \in {<< >>, <<"]">>, <<"g">>}}

\* getNextToken is private: the scanner is followed on the text behind the '['
\* that opens a document, where parseArray calls it; a few whole documents keep
\* the rest of the parser at work
ScanTexts ==
    {<<"[">> \o t : t \in StringScans \cup NumberScans \cup HexScans}
    \cup {<<"[", "1", ",", QUOTE, "a", QUOTE, "]">>,
          <<"{", QUOTE, "k", QUOTE, ":", "1", ",", QUOTE, "a", QUOTE, ":", "[", "]", "}">>}

InitScan == \E text \in ScanTexts, behind \in PastEnd : SetUp(text, behind, ScanCapacity)

NextScan ==
    \/ ParseAgain
    \/ ParseLoop
    \/ ParseEof
    \/ ParseFinish
    \/ ArrayEnter
    \/ ArrayLoop
    \/ ArrayAfter
    \/ ObjectEnter
    \/ ObjectKey
    \/ ObjectValue
    \/ ObjectAfter

SpecScan == InitScan /\ [][NextScan]_vars

\* the first getNextToken of parseArray in the first Parse call has returned:
\* the token that begins at offset 1 is in m_currentToken
FirstToken ==
    /\ calls = 1 /\ pc = "A_loop" /\ halt = "none"
    /\ m_currentToken.data = 1

\* the text the scanner was called on: the input behind the opening '['
Scanned == Tail(data)

\* the first offset from i on that is behind the text or holds no digit
DigitsEnd(text, i) == Least({j \in i..(Len(text) + 1) : j > Len(text) \/ ~isDigit(text[j])})

\* the text from offset i on begins with four hex digits
FourHex(text, i) == i + 3 <= Len(text) /\ \A j \in i..(i + 3) : isHexDigit(text[j])

\* a JSON string: from offset i on (the opening quotation mark is before it) the
\* text up to the first quotation mark that is not escaped holds only bytes >= 0x20
\* other than backslash and the escapes of the scanner
RECURSIVE WellFormedString(_, _)
WellFormedString(text, i) ==
    IF i > Len(text) THEN FALSE
    ELSE IF text[i] = QUOTE THEN TRUE
    ELSE IF isControl(text[i]) THEN FALSE
    ELSE IF text[i] # BACKSLASH THEN WellFormedString(text, i + 1)
    ELSE IF i = Len(text) THEN FALSE
    ELSE IF text[i + 1] \in SimpleEscapes THEN WellFormedString(text, i + 2)
    ELSE IF text[i + 1] = "u" /\ FourHex(text, i + 2) THEN WellFormedString(text, i + 6)
    ELSE FALSE

\* C24: for a text that begins with a quotation mark the scanner returns a
\* string token exactly when the text up to the first quotation mark that is not
\* escaped is well formed (an unescaped '/' included), and an invalid token
\* otherwise
C24_StringToken ==
    (FirstToken /\ Scanned[1] = QUOTE)
    => IF WellFormedString(Scanned, 2) THEN m_currentToken.type = "JSON_STRING"
       ELSE m_currentToken.type = "INVALID"

\* the text of the token in m_currentToken
TokenText == SubSeq(data \o past, m_currentToken.data + 1,
                    m_currentToken.data + m_currentToken.length)

\* -?(0|[1-9][0-9]*)(\.[0-9]+)?([eE][+-]?[0-9]+)? : the offset behind the longest
\* part of the text from its start on that is the integer part, 0 when there is none
IntegerEnd(text) ==
    LET Unsigned(i) == IF i > Len(text) \/ ~isDigit(text[i]) THEN 0
                       ELSE IF text[i] = "0" THEN i + 1
                       ELSE DigitsEnd(text, i)
    IN  Unsigned(IF text # << >> /\ text[1] = "-" THEN 2 ELSE 1)

\* the offset behind the fraction that begins at offset i, i itself when no '.'
\* is there, 0 when the '.' is followed by no digit
FractionEnd(text, i) ==
    IF i > Len(text) \/ text[i] # "." THEN i
    ELSE IF DigitsEnd(text, i + 1) = i + 1 THEN 0
    ELSE DigitsEnd(text, i + 1)

\* the same for the exponent that begins at offset i
ExponentEnd(text, i) ==
    IF i > Len(text) \/ text[i] \notin {"e", "E"} THEN i
    ELSE LET Digits(j) == IF DigitsEnd(text, j) = j THEN 0 ELSE DigitsEnd(text, j)
         IN  Digits(IF i + 1 <= Len(text) /\ text[i + 1] \in {"-", "+"} THEN i + 2 ELSE i + 1)

\* the whole text is a number of the grammar
IsNumberText(text) ==
    /\ IntegerEnd(text) # 0
    /\ FractionEnd(text, IntegerEnd(text)) # 0
    /\ ExponentEnd(text, FractionEnd(text, IntegerEnd(text))) = Len(text) + 1

\* an integer part, or an integer part and a fraction, followed by a '.' or an
\* exponent marker that no digit follows
DanglingMarker(text) ==
    /\ IntegerEnd(text) # 0
    /\ \/ FractionEnd(text, IntegerEnd(text)) = 0
       \/ /\ FractionEnd(text, IntegerEnd(text)) # 0
          /\ ExponentEnd(text, FractionEnd(text, IntegerEnd(text))) = 0

\* C25: the text of every number token is a number of the grammar, with at most
\* one fraction and one exponent, and a text whose '.' or exponent marker is not
\* followed by a digit is an invalid token
C25_NumberGrammar ==
    (FirstToken /\ (isDigit(Scanned[1]) \/ Scanned[1] = "-")
     /\ ~(Len(Scanned) >= 2 /\ Scanned[2] = "x"))
    => /\ m_currentToken.type = "JSON_NUMBER" => IsNumberText(TokenText)
       /\ DanglingMarker(Scanned) => m_currentToken.type = "INVALID"

\* the number of hex digits from offset i of the text on
HexDigitsFrom(text, i) ==
    Least({j \in i..(Len(text) + 1) : j > Len(text) \/ ~isHexDigit(text[j])}) - i

\* C26: for a text whose first byte is a digit or '-' and whose second byte is
\* 'x' the scanner returns a float-hex token iff exactly 8 hex digits follow, a
\* double-hex token iff exactly 16 follow, and an invalid token for every other
\* length of the run
C26_HexRunLength ==
    (FirstToken /\ (isDigit(Scanned[1]) \/ Scanned[1] = "-")
     /\ Len(Scanned) >= 2 /\ Scanned[2] = "x")
    => m_currentToken.type = (IF HexDigitsFrom(Scanned, 3) = 8 THEN "JSON_FLOAT_HEX"
                              ELSE IF HexDigitsFrom(Scanned, 3) = 16 THEN "JSON_DOUBLE_HEX"
                              ELSE "INVALID")

----------------------------------------------------------------------------
(* The position of the scanner, the end of Parse and repeated Parse calls. *)

\* C27: in every state of every parse m_pos lies between m_begin and m_end, and
\* no scan runs off the memory behind the input
C27_ScannerStaysInside ==
    /\ m_pos \in 0..End
    /\ halt # "fault"

\* the steps inside a Parse call
ParseSteps ==
    \/ ParseLoop
    \/ ParseEof
    \/ ParseFinish
    \/ ArrayEnter
    \/ ArrayLoop
    \/ ArrayAfter
    \/ ObjectEnter
    \/ ObjectKey
    \/ ObjectValue
    \/ ObjectAfter

MaxTermLen == 2       \* characters of the free texts
MaxTermDoc == 7       \* characters of the documents

TermTexts == {t \in CharInputs : Len(t) <= MaxTermLen} \cup {t \in DocTexts : Len(t) <= MaxTermDoc}

InitTerm == \E text \in TermTexts, behind \in PastEnd, capacity \in 0..MaxCap :
                SetUp(text, behind, capacity)

\* Parse is sequential code: once called it runs on until it returns or the
\* process ends
SpecTerm == InitTerm /\ [][Next]_vars /\ WF_vars(ParseSteps)

Statuses == {"VALID_JSON", "INVALID_TOKENS", "SYNTACTIC_ERRORS", "CAPACITY_EXCEEDED"}

\* a Parse call that has returned has left one of the four final statuses
StatusAtReturn == [](Returned => m_errorCode \in Statuses)

\* a Parse call that is running returns or ends the process
ParseTerminates == (pc # "idle") ~> (pc \in {"idle", "halted"})

\* a step of Parse that scans a token while m_pos < m_end moves m_pos forward
\* and not beyond m_end
ScanAdvancesInside ==
    [][(pc \notin {"idle", "halted"} /\ m_pos < End /\ m_currentToken' # m_currentToken)
       => (m_pos < m_pos' /\ m_pos' <= End)]_vars

\* C28: Parse terminates, its status at return is one of the four final ones,
\* and every scan made while m_pos < m_end moves m_pos forward and not beyond
\* m_end
C28_ParseEnds == StatusAtReturn /\ ParseTerminates /\ ScanAdvancesInside

\* the buffer starts with the root container and holds no invalid and no
\* syntactic-error node
CleanBuffer ==
    /\ m_nodeCount >= 1
    /\ m_nodeBuffer[0].type \in {"JSON_ARRAY", "JSON_OBJECT"}
    /\ \A k \in 0..(m_nodeCount - 1) :
           m_nodeBuffer[k].type \notin {"INVALID", "SYNTACTIC_ERROR"}

\* C29: a Parse() call that follows another one on the same buffer (calls = 2;
\* after VALID_JSON such a call returns at once, so the earlier call has failed)
\* never makes the status VALID_JSON; a VALID_JSON buffer with the nodes of a
\* failed attempt can therefore not arise
C29_FailedParseStaysFailed ==
    [][(calls = 2 /\ m_errorCode # "VALID_JSON")
       => (m_errorCode' # "VALID_JSON" \/ CleanBuffer')]_vars

====
